---- MODULE Spec2Model ----
(***************************************************************************)
(* A model of the pfs crate: the filter set (src/src/filter.rs), the       *)
(* metadata cache (src/src/cache.rs), the directory walker                 *)
(* (src/src/native_fs.rs) and the PortableFs facade                        *)
(* (src/src/portable_fs.rs).                                               *)
(*                                                                         *)
(* Host paths under the facade's base directory and portable paths are     *)
(* sequences of components; the base directory itself is the empty         *)
(* sequence.                                                               *)
(***************************************************************************)
EXTENDS Integers, Sequences, FiniteSets, TLC

VARIABLES
    disk,        \* the directory tree under the base directory: path -> node
    cache,       \* FsLayer.cache: the boxed Cache (FsCache or NullCache)
    filter_set,  \* FsLayer.filter_set
    nops,        \* number of facade calls made so far (also the clock)
    prev,        \* what the latest exchange_deltas emitted; current until the
                 \* disk, the filter set or a cached record changes
    last,        \* the latest facade call: its arguments and what it returned
    m_path,      \* FilterSet::matches probe: the path argument
    m_dir,       \* FilterSet::matches probe: the is_dir argument
    m_res,       \* FilterSet::matches probe: the returned level
    p_probe,     \* Path probe: a sequence of component strings, the
                 \* constructor it was given to and what came back
    touched,     \* Cache probe: key -> the time of the latest put or
                 \* successful get of the key
    tasks        \* the walks in progress: walker id -> the walker task,
                 \* its channel and the receiver of the channel

vars ==
    <<disk, cache, filter_set, nops, prev, last, m_path, m_dir, m_res, p_probe,
      touched, tasks>>

(***************************************************************************)
(* Bounds of the model                                                     *)
(***************************************************************************)
MaxOps == 2          \* facade calls in one behaviour of Spec
MaxFilterRoots == 2  \* length of allowed_roots and of denied_roots in SpecFilter

None == "None"

\* F applied to the value of v, with v evaluated once.
Let(v, F(_)) == CHOOSE r \in {F(x) : x \in {v}} : TRUE

(***************************************************************************)
(* std::path::Path as used by the crate                                    *)
(***************************************************************************)
\* Path::starts_with: whole components are compared, never bytes.
StartsWith(path, base) ==
    /\ Len(base) <= Len(path)
    /\ \A i \in 1..Len(base) : path[i] = base[i]

\* Path::strip_prefix: the rest of the path, or an error.
StripPrefix(path, base) ==
    IF StartsWith(path, base)
    THEN [ok |-> TRUE, rel |-> SubSeq(path, Len(base) + 1, Len(path))]
    ELSE [ok |-> FALSE, rel |-> <<>>]

\* The file names of the model in ascending byte order (String::cmp).
NameOrder == <<"a.txt", "b.RS", "dir1", "dir2">>

Names == {NameOrder[i] : i \in 1..Len(NameOrder)}

NameRank(n) == CHOOSE i \in 1..Len(NameOrder) : NameOrder[i] = n

\* Path::file_name of a relative path of normal components.
FileName(path) == IF path = <<>> THEN None ELSE path[Len(path)]

\* Path::extension: the part of the file name after its last dot.
Extension(path) ==
    CASE FileName(path) = "a.txt" -> "txt"
      [] FileName(path) = "b.RS" -> "RS"
      [] OTHER -> None

\* str::to_lowercase on the extensions of the model.
ToLowercase(s) ==
    CASE s = "RS" -> "rs"
      [] s = "TXT" -> "txt"
      [] OTHER -> s

(***************************************************************************)
(* FilterSet (src/src/filter.rs)                                           *)
(***************************************************************************)
Deny == "Deny"
Traverse == "Traverse"
Allow == "Allow"

\* FilterSet::new
FilterSetNew ==
    [allowed_roots |-> <<>>, denied_roots |-> <<>>,
     allowed_extensions |-> {}, allowed_filenames |-> {}]

\* A faulty allow_path: the new root replaces the list.
allow_path_replacing(fs, root) == [fs EXCEPT !.allowed_roots = <<root>>]

allow_path(fs, root) == [fs EXCEPT !.allowed_roots = Append(@, root)]

\* A faulty deny_path: the root is pushed on the other list.
deny_path_into_allowed(fs, root) == [fs EXCEPT !.allowed_roots = Append(@, root)]

deny_path(fs, root) == [fs EXCEPT !.denied_roots = Append(@, root)]

allow_extension(fs, ext) ==
    [fs EXCEPT !.allowed_extensions = @ \cup {ToLowercase(ext)}]

allow_filename(fs, name) == [fs EXCEPT !.allowed_filenames = @ \cup {name}]

\* A faulty check_extension: the extension is looked up as spelled.
check_extension_as_spelled(fs, ext) == ext \in fs.allowed_extensions

check_extension(fs, ext) == ToLowercase(ext) \in fs.allowed_extensions

check_filename(fs, path) ==
    /\ FileName(path) # None
    /\ FileName(path) \in fs.allowed_filenames

\* A faulty matches: a directory goes through the extension and file name
\* checks like a file, so Traverse is never returned.
matches_dirs_as_files(fs, path, is_dir) ==
    IF \E i \in 1..Len(fs.denied_roots) : StartsWith(path, fs.denied_roots[i])
    THEN Deny
    ELSE IF /\ fs.allowed_roots # <<>>
            /\ ~ \E i \in 1..Len(fs.allowed_roots) :
                      StartsWith(path, fs.allowed_roots[i])
    THEN Deny
    ELSE IF /\ fs.allowed_extensions # {}
            /\ \/ Extension(path) = None
               \/ ToLowercase(Extension(path)) \notin fs.allowed_extensions
    THEN Deny
    ELSE IF /\ fs.allowed_filenames # {}
            /\ FileName(path) \notin fs.allowed_filenames
    THEN Deny
    ELSE Allow

matches(fs, path, is_dir) ==
    IF \E i \in 1..Len(fs.denied_roots) : StartsWith(path, fs.denied_roots[i])
    THEN Deny
    ELSE IF /\ fs.allowed_roots # <<>>
            /\ ~ \E i \in 1..Len(fs.allowed_roots) :
                      StartsWith(path, fs.allowed_roots[i])
    THEN Deny
    ELSE IF is_dir /\ fs.allowed_extensions = {} /\ fs.allowed_filenames = {}
    THEN Allow
    ELSE IF is_dir
    THEN Traverse
    ELSE IF /\ fs.allowed_extensions # {}
            /\ \/ Extension(path) = None
               \/ ~ check_extension(fs, Extension(path))
    THEN Deny
    ELSE IF fs.allowed_filenames # {} /\ ~ check_filename(fs, path)
    THEN Deny
    ELSE Allow

(***************************************************************************)
(* Time strings (src/src/utils.rs) and FileStat (src/src/file.rs)          *)
(***************************************************************************)
\* An mtime string is its instant and its shape: "Z" is the shape
\* format_system_time writes, "offset" another RFC 3339 spelling of the same
\* instant, "bad" a string that is no RFC 3339 time.
format_system_time(t) == [ms |-> t, form |-> "Z"]

parse_system_time(s) ==
    IF s.form \in {"Z", "offset"}
    THEN [ok |-> TRUE, t |-> s.ms]
    ELSE [ok |-> FALSE, t |-> 0]

\* File contents of the model, their length and their digest.
Data == {"x", "yy"}

DataLen(d) == IF d = "x" THEN 1 ELSE IF d = "yy" THEN 2 ELSE 0

Sha256Hex(d) == IF d = "x" THEN "sha256(x)" ELSE "sha256(yy)"

NoNode == [kind |-> "none", data |-> "", mtime |-> 0]

FileNode(d, t) == [kind |-> "file", data |-> d, mtime |-> t]

DirNode(t) == [kind |-> "dir", data |-> "", mtime |-> t]

\* The fixture tree the tests build (reduced), all created at time 0.
Fixture ==
    (<<"a.txt">> :> FileNode("x", 0))
    @@ (<<"dir1">> :> DirNode(0))
    @@ (<<"dir1", "b.RS">> :> FileNode("x", 0))
    @@ (<<"dir1", "dir2">> :> DirNode(0))
    @@ (<<"dir1", "dir2", "a.txt">> :> FileNode("yy", 0))

\* The paths write and delete_file are called with.
WritePaths == {<<"a.txt">>, <<"dir1">>, <<"dir2", "a.txt">>}

Prefixes(p) == {SubSeq(p, 1, n) : n \in 1..Len(p)}

\* Every path that can exist on disk in the model.
DiskPaths == UNION {Prefixes(p) : p \in (DOMAIN Fixture) \cup WritePaths}

NodeAt(dsk, p) ==
    IF p = <<>> THEN DirNode(0)
    ELSE IF p \in DOMAIN dsk THEN dsk[p] ELSE NoNode

\* std::path::Path::exists / is_dir
Exists(dsk, p) == NodeAt(dsk, p).kind # "none"

IsDir(dsk, p) == NodeAt(dsk, p).kind = "dir"

Parent(p) == SubSeq(p, 1, Len(p) - 1)

\* Option<T>: <<>> is None, <<v>> is Some(v).
Some(v) == <<v>>

\* FileStat::from_metadata with the digest from_path computes.
from_path(dsk, p) ==
    LET n == NodeAt(dsk, p) IN
    IF n.kind = "none"
    THEN [ok |-> FALSE,
          stats |-> [size |-> 0, mtime |-> format_system_time(0),
                     is_directory |-> FALSE, sha256 |-> <<>>]]
    ELSE IF n.kind = "dir"
    THEN [ok |-> TRUE,
          stats |-> [size |-> 0, mtime |-> format_system_time(n.mtime),
                     is_directory |-> TRUE, sha256 |-> Some("")]]
    ELSE [ok |-> TRUE,
          stats |-> [size |-> DataLen(n.data),
                     mtime |-> format_system_time(n.mtime),
                     is_directory |-> FALSE,
                     sha256 |-> Some(Sha256Hex(n.data))]]

(***************************************************************************)
(* Portable Path (src/src/path.rs)                                         *)
(***************************************************************************)
\* TryFrom<&StdPath>: the root component is dropped, the others kept.
PathTryFromStd(host) ==
    IF host = <<".">> \/ host = <<"..">>
    THEN [ok |-> FALSE, path |-> <<>>]
    ELSE [ok |-> TRUE, path |-> SelectSeq(host, LAMBDA c : c # "/")]

\* Path::append_to
append_to(path, base_dir) == base_dir \o path

\* Path::get_file_stat: the PathBuf that append_to returns is dropped, so
\* what is tested and read is base_dir.
get_file_stat(path, base_dir, dsk) ==
    LET appended == append_to(path, base_dir)
        tested == base_dir
    IN IF Exists(dsk, tested)
       THEN [ret |-> "Ok", stats |-> from_path(dsk, tested).stats]
       ELSE [ret |-> "InvalidPath", stats |-> from_path(dsk, tested).stats]

\* Path::parent
parent(path) == IF path = <<>> THEN <<>> ELSE Some(Parent(path))

\* Path::basename
basename(path) == IF path = <<>> THEN <<>> ELSE Some(path[Len(path)])

(***************************************************************************)
(* Cache (src/src/cache.rs). The LRU list is kept most recently used first.*)
(***************************************************************************)
FsCacheNew(capacity) ==
    [kind |-> "lru", cap |-> capacity, lru |-> <<>>, hits |-> 0, misses |-> 0]

NullCacheNew(capacity) ==
    [kind |-> "null", cap |-> capacity, lru |-> <<>>, hits |-> 0, misses |-> 0]

CacheKeys(c) == {c.lru[i].key : i \in 1..Len(c.lru)}

\* LruCache::peek: the stored record, recency and counters untouched.
CachePeek(c, key) ==
    IF key \in CacheKeys(c)
    THEN Some((CHOOSE e \in {c.lru[i] : i \in 1..Len(c.lru)} : e.key = key).value)
    ELSE <<>>

Without(c, key) == SelectSeq(c.lru, LAMBDA e : e.key # key)

\* Cache::len
CacheLen(c) == IF c.kind = "null" THEN 0 ELSE Len(c.lru)

\* A faulty get: a key that is absent is not counted as a miss.
CacheGetHitsOnly(c, key) ==
    IF c.kind = "null"
    THEN [cache |-> c, value |-> <<>>]
    ELSE IF key \in CacheKeys(c)
    THEN [cache |-> [c EXCEPT
                       !.lru = <<[key |-> key, value |-> CachePeek(c, key)[1]]>>
                               \o Without(c, key),
                       !.hits = @ + 1],
          value |-> CachePeek(c, key)]
    ELSE [cache |-> c, value |-> <<>>]

\* A faulty get: a hit is counted but the entry keeps its place.
CacheGetNoRefresh(c, key) ==
    IF c.kind = "null"
    THEN [cache |-> c, value |-> <<>>]
    ELSE IF key \in CacheKeys(c)
    THEN [cache |-> [c EXCEPT !.hits = @ + 1], value |-> CachePeek(c, key)]
    ELSE [cache |-> [c EXCEPT !.misses = @ + 1], value |-> <<>>]

\* Cache::get: the cache after the call and the returned Option.
CacheGet(c, key) ==
    IF c.kind = "null"
    THEN [cache |-> c, value |-> <<>>]
    ELSE IF key \in CacheKeys(c)
    THEN [cache |-> [c EXCEPT
                       !.lru = <<[key |-> key, value |-> CachePeek(c, key)[1]]>>
                               \o Without(c, key),
                       !.hits = @ + 1],
          value |-> CachePeek(c, key)]
    ELSE [cache |-> [c EXCEPT !.misses = @ + 1], value |-> <<>>]

\* A faulty put: a key already present keeps its record (insert if absent).
CachePutIfAbsent(c, key, value) ==
    IF c.kind = "null" \/ key \in CacheKeys(c)
    THEN c
    ELSE [c EXCEPT !.lru = <<[key |-> key, value |-> value]>> \o c.lru]

\* A faulty put: the null cache stores the record too.
CachePutIntoNull(c, key, value) ==
    [c EXCEPT !.lru = <<[key |-> key, value |-> value]>> \o Without(c, key)]

\* A faulty put: a new key is added without making room for it.
CachePutNoEvict(c, key, value) ==
    IF c.kind = "null"
    THEN c
    ELSE [c EXCEPT !.lru = <<[key |-> key, value |-> value]>> \o Without(c, key)]

\* Cache::put
CachePut(c, key, value) ==
    IF c.kind = "null"
    THEN c
    ELSE IF key \in CacheKeys(c)
    THEN [c EXCEPT !.lru = <<[key |-> key, value |-> value]>> \o Without(c, key)]
    ELSE IF Len(c.lru) >= c.cap
    THEN [c EXCEPT !.lru = <<[key |-> key, value |-> value]>>
                           \o SubSeq(c.lru, 1, c.cap - 1)]
    ELSE [c EXCEPT !.lru = <<[key |-> key, value |-> value]>> \o c.lru]

\* A faulty pop: the entry is only marked most recently used.
CachePopTouch(c, key) ==
    IF c.kind = "null" \/ key \notin CacheKeys(c) THEN c
    ELSE [c EXCEPT !.lru = <<[key |-> key, value |-> CachePeek(c, key)[1]]>>
                           \o Without(c, key)]

\* Cache::pop
CachePop(c, key) ==
    IF c.kind = "null" THEN c ELSE [c EXCEPT !.lru = Without(c, key)]

\* The capacity with_cache and without_cache pass.
CacheCapacity == 1000

(***************************************************************************)
(* lookup_or_load (src/src/portable_fs.rs)                                 *)
(***************************************************************************)
\* A faulty lookup_or_load: after the load the cache is asked once more
\* before the record is put.
lookup_or_load_rechecking(c, dsk, host, portable) ==
    LET got == CacheGet(c, portable) IN
    IF got.value # <<>>
    THEN [ok |-> TRUE, stats |-> got.value[1], cache |-> got.cache]
    ELSE LET loaded == from_path(dsk, host) IN
         IF loaded.ok
         THEN [ok |-> TRUE, stats |-> loaded.stats,
               cache |-> CachePut(CacheGet(got.cache, portable).cache,
                                 portable, loaded.stats)]
         ELSE [ok |-> FALSE, stats |-> loaded.stats, cache |-> got.cache]

lookup_or_load(c, dsk, host, portable) ==
    LET got == CacheGet(c, portable) IN
    IF got.value # <<>>
    THEN [ok |-> TRUE, stats |-> got.value[1], cache |-> got.cache]
    ELSE LET loaded == from_path(dsk, host) IN
         IF loaded.ok
         THEN [ok |-> TRUE, stats |-> loaded.stats,
               cache |-> CachePut(got.cache, portable, loaded.stats)]
         ELSE [ok |-> FALSE, stats |-> loaded.stats, cache |-> got.cache]

(***************************************************************************)
(* DirWalker (src/src/native_fs.rs)                                        *)
(***************************************************************************)
Reverse(q) == [i \in 1..Len(q) |-> q[Len(q) + 1 - i]]

\* The orders in which the OS may return the entries of a directory.
OsOrders == {NameOrder, Reverse(NameOrder)}

\* async_fs::read_dir: the paths of the entries of dir, in the OS's order.
ReadDirEntries(dsk, dir, ord) ==
    LET present == SelectSeq(ord, LAMBDA n : Exists(dsk, dir \o <<n>>))
    IN [i \in 1..Len(present) |-> dir \o <<present[i]>>]

\* DirWalker::create, with the bookkeeping of what the walk did:
\* sent (the chunks put on tx, in order), locs (where each pushed entry lies
\* under the base directory) and listed (the directories opened). stack holds
\* the activations of walk_recursive, the innermost first: the directory, its
\* entries still to visit and its depth.
DirWalkerCreate(strip_prefix, c, fs, dsk, ord, chunk_size, max_depth, lookup) ==
    [strip_prefix |-> strip_prefix, cache |-> c, filter_set |-> fs,
     disk |-> dsk, ord |-> ord, chunk_size |-> chunk_size,
     max_depth |-> max_depth, lookup |-> lookup,
     chunks |-> <<>>, sent |-> <<>>, locs |-> <<>>, listed |-> {},
     stack |-> <<>>, descend |-> FALSE, err |-> None]

\* An error return: the ? operators unwind every activation.
Fail(w, e) == [w EXCEPT !.err = e, !.stack = <<>>, !.descend = FALSE]

\* A faulty write_chunks: the chunk is sent but not taken out of the buffer.
write_chunks_keeping(w) == [w EXCEPT !.sent = Append(@, w.chunks)]

\* DirWalker::write_chunks
write_chunks(w) == [w EXCEPT !.sent = Append(@, w.chunks), !.chunks = <<>>]

push_and_send(w, item, loc) ==
    LET w1 == [w EXCEPT !.chunks = Append(@, item), !.locs = Append(@, loc)]
    IN IF Len(w1.chunks) = w.chunk_size THEN write_chunks(w1) ELSE w1

\* A faulty iteration: the loop recurses into a directory it has skipped.
VisitEntryIntoDenied(w, entry_path) ==
    LET sp == StripPrefix(entry_path, w.strip_prefix) IN
    IF ~ sp.ok THEN Fail(w, "Read")
    ELSE
    LET pp == PathTryFromStd(sp.rel) IN
    IF ~ pp.ok THEN Fail(w, "InvalidArgument")
    ELSE
    Let(lookup_or_load(w.cache, w.disk, entry_path, pp.path), LAMBDA ld :
    IF ~ ld.ok
    THEN Fail([w EXCEPT !.cache = ld.cache], "Read")
    ELSE
    LET is_dir == ld.stats.is_directory
        filter_level == matches(w.filter_set, sp.rel, is_dir)
        skip_push == /\ sp.rel \in DOMAIN w.lookup
                     /\ w.lookup[sp.rel] = ld.stats
        w1 == [w EXCEPT !.cache = ld.cache,
                        !.descend = is_dir]
    IN IF filter_level = Allow /\ ~ skip_push
       THEN push_and_send(w1, [path |-> pp.path, stats |-> ld.stats], entry_path)
       ELSE w1)

\* One iteration of the loop of walk_recursive, up to the recursive call:
\* descend tells whether the loop goes on to recurse into the entry.
VisitEntry(w, entry_path) ==
    LET sp == StripPrefix(entry_path, w.strip_prefix) IN
    IF ~ sp.ok THEN Fail(w, "Read")
    ELSE
    LET pp == PathTryFromStd(sp.rel) IN
    IF ~ pp.ok THEN Fail(w, "InvalidArgument")
    ELSE
    Let(lookup_or_load(w.cache, w.disk, entry_path, pp.path), LAMBDA ld :
    IF ~ ld.ok
    THEN Fail([w EXCEPT !.cache = ld.cache], "Read")
    ELSE
    LET is_dir == ld.stats.is_directory
        filter_level == matches(w.filter_set, sp.rel, is_dir)
        skip_push == /\ sp.rel \in DOMAIN w.lookup
                     /\ w.lookup[sp.rel] = ld.stats
        w1 == [w EXCEPT !.cache = ld.cache,
                        !.descend = (filter_level # Deny /\ is_dir)]
    IN IF filter_level = Allow /\ ~ skip_push
       THEN push_and_send(w1, [path |-> pp.path, stats |-> ld.stats], entry_path)
       ELSE w1)

\* A faulty start of walk_recursive: the directory is put behind the
\* activations still running, so it is walked after their other entries.
WalkEnterBreadthFirst(w, dir_path, current_depth) ==
    IF w.max_depth # <<>> /\ current_depth > w.max_depth[1] THEN w
    ELSE IF ~ IsDir(w.disk, dir_path) THEN Fail(w, "Read")
    ELSE [w EXCEPT
            !.listed = @ \cup {dir_path},
            !.stack = @ \o <<[dir |-> dir_path,
                              entries |-> ReadDirEntries(w.disk, dir_path, w.ord),
                              depth |-> current_depth]>>]

\* A faulty start of walk_recursive: max_depth is not looked at.
WalkEnterAnyDepth(w, dir_path, current_depth) ==
    IF ~ IsDir(w.disk, dir_path) THEN Fail(w, "Read")
    ELSE [w EXCEPT
            !.listed = @ \cup {dir_path},
            !.stack = <<[dir |-> dir_path,
                         entries |-> ReadDirEntries(w.disk, dir_path, w.ord),
                         depth |-> current_depth]>> \o @]

\* The start of walk_recursive(dir_path, current_depth): the depth check and
\* the listing of the directory.
WalkEnter(w, dir_path, current_depth) ==
    IF w.max_depth # <<>> /\ current_depth > w.max_depth[1] THEN w
    ELSE IF ~ IsDir(w.disk, dir_path) THEN Fail(w, "Read")
    ELSE [w EXCEPT
            !.listed = @ \cup {dir_path},
            !.stack = <<[dir |-> dir_path,
                         entries |-> ReadDirEntries(w.disk, dir_path, w.ord),
                         depth |-> current_depth]>> \o @]

\* One step of the innermost activation of walk_recursive: the next entry of
\* its loop, or, after the last entry, the flush of the chunk and the return.
WalkStep(w) ==
    LET top == Head(w.stack) IN
    IF top.entries = <<>>
    THEN LET out == [w EXCEPT !.stack = Tail(@)]
         IN IF w.chunks # <<>> THEN write_chunks(out) ELSE out
    ELSE LET entry_path == Head(top.entries)
         IN Let(VisitEntry([w EXCEPT !.stack[1].entries = Tail(@)], entry_path),
                LAMBDA v : IF v.err # None \/ ~ v.descend THEN v
                           ELSE WalkEnter(v, entry_path, top.depth + 1))

RECURSIVE WalkLoop(_)
\* The walk to its end: until every activation has returned or one failed.
WalkLoop(w) ==
    IF w.stack = <<>> THEN w ELSE Let(WalkStep(w), LAMBDA n : WalkLoop(n))

walk_dir_stream(w, full_path) == WalkLoop(WalkEnter(w, full_path, 0))

RECURSIVE Concat(_)
\* What the receiver has after draining the chunks in order.
Concat(chunks) ==
    IF chunks = <<>> THEN <<>> ELSE Head(chunks) \o Concat(Tail(chunks))

\* DirWalker::walk_dir: the walker's final state; its result is Ok(Concat(sent))
\* when err is None and Err(err) otherwise.
walk_dir(full_path, strip_prefix, c, fs, dsk, ord, chunk_size, max_depth) ==
    walk_dir_stream(
        DirWalkerCreate(strip_prefix, c, fs, dsk, ord, chunk_size, max_depth,
                        <<>>),
        full_path)

(***************************************************************************)
(* The filesystem calls of write and delete_file                           *)
(***************************************************************************)
\* Creating or removing an entry sets the modification time of its directory.
TouchParent(dsk, p, now) ==
    IF Parent(p) = <<>> THEN dsk ELSE [dsk EXCEPT ![Parent(p)].mtime = now]

RECURSIVE create_dir_all(_, _, _)
\* tokio::fs::create_dir_all: fails when an ancestor is a regular file.
create_dir_all(dsk, p, now) ==
    IF p = <<>> \/ IsDir(dsk, p) THEN [ok |-> TRUE, disk |-> dsk]
    ELSE IF Exists(dsk, p) THEN [ok |-> FALSE, disk |-> dsk]
    ELSE LET up == create_dir_all(dsk, Parent(p), now) IN
         IF ~ up.ok THEN up
         ELSE [ok |-> TRUE,
               disk |-> [TouchParent(up.disk, p, now) EXCEPT ![p] = DirNode(now)]]

\* tokio::fs::write: creates or truncates the file; fails on a directory.
fs_write(dsk, p, data, now) ==
    IF p = <<>> \/ IsDir(dsk, p) \/ ~ IsDir(dsk, Parent(p))
    THEN [ok |-> FALSE, disk |-> dsk]
    ELSE IF Exists(dsk, p)
    THEN [ok |-> TRUE, disk |-> [dsk EXCEPT ![p] = FileNode(data, now)]]
    ELSE [ok |-> TRUE,
          disk |-> [TouchParent(dsk, p, now) EXCEPT ![p] = FileNode(data, now)]]

\* File::set_modified
set_modified(dsk, p, t) == [dsk EXCEPT ![p].mtime = t]

\* tokio::fs::remove_file
remove_file(dsk, p, now) == [TouchParent(dsk, p, now) EXCEPT ![p] = NoNode]

(***************************************************************************)
(* PortableFs (src/src/portable_fs.rs)                                     *)
(***************************************************************************)
\* PortableFs::as_abs_path: the base directory is the empty sequence.
as_abs_path(relative) == append_to(relative, <<>>)

\* PortableFs::as_relative_path
as_relative_path(relative) == append_to(relative, <<>>)

\* The chunk size read_dir and read_dir_recurse pass to walk_dir.
ReadDirChunkSize == 20

NoStat ==
    [size |-> 0, mtime |-> format_system_time(0), is_directory |-> FALSE,
     sha256 |-> <<>>]

\* The record of a facade call: its arguments, its result, what the walker it
\* ran did, and what the state was before it.
NoCall ==
    [op |-> "none", path |-> <<>>, ret |-> "Ok", stats |-> NoStat,
     current_path |-> <<>>, items |-> <<>>,
     sent |-> <<>>, locs |-> <<>>, listed |-> {}, chunk_size |-> 0,
     deltas |-> <<>>,
     walk_err |-> None, after_full |-> FALSE, after_any |-> FALSE,
     pre_cached |-> FALSE, pre_len |-> 0, pre_filter |-> FilterSetNew,
     base_dir |-> <<>>]

\* No Path has been constructed: strings are sequences of characters.
NoConv ==
    [op |-> "none", ctor |-> "none", input |-> <<>>, ok |-> FALSE,
     err |-> None, path |-> <<>>, orig |-> <<>>, out |-> <<>>]

\* The walkers of the model and, before a walk is started, their tasks.
WalkerIds == {1, 2}

NoTasks == [i \in WalkerIds |-> [state |-> "idle"]]

NoPrev == [current |-> FALSE, full |-> FALSE, base_dir |-> <<>>, items |-> <<>>]

\* The time a call made now stamps on what it creates.
Now == nops + 1

\* with_cache / without_cache
with_cache == FsCacheNew(CacheCapacity)

without_cache == NullCacheNew(CacheCapacity)

\* DirectoryEntry::try_from(&FileInfo)
DirectoryEntryTryFrom(item) ==
    IF basename(item.path) = <<>>
    THEN [ok |-> FALSE, entry |-> [name |-> "", stats |-> item.stats]]
    ELSE [ok |-> TRUE,
          entry |-> [name |-> basename(item.path)[1], stats |-> item.stats]]

\* A faulty comparator: names only.
EntryLessByName(a, b) == NameRank(a.name) < NameRank(b.name)

\* The comparator of read_dir: Less of the closure given to sort_by.
EntryLess(a, b) ==
    IF a.stats.is_directory /\ ~ b.stats.is_directory THEN TRUE
    ELSE IF ~ a.stats.is_directory /\ b.stats.is_directory THEN FALSE
    ELSE NameRank(a.name) < NameRank(b.name)

\* Vec::sort_by (a stable sort): x goes before the first element greater than it.
SortInsert(sorted, x) ==
    LET before == {i \in 1..Len(sorted) : EntryLess(x, sorted[i])}
        k == IF before = {} THEN Len(sorted) + 1
             ELSE CHOOSE i \in before : \A j \in before : i <= j
    IN SubSeq(sorted, 1, k - 1) \o <<x>> \o SubSeq(sorted, k, Len(sorted))

RECURSIVE SortBy(_)
SortBy(items) ==
    IF items = <<>> THEN <<>>
    ELSE Let(SortBy(SubSeq(items, 1, Len(items) - 1)),
             LAMBDA sorted : SortInsert(sorted, items[Len(items)]))

\* A faulty lookup: the loop stops one item short.
LookupFromAllButLast(deltas) ==
    LET n == IF deltas = <<>> THEN 0 ELSE Len(deltas) - 1
    IN [k \in {deltas[i].path : i \in 1..n} |->
           deltas[CHOOSE i \in 1..n : deltas[i].path = k].stats]

\* The HashMap exchange_deltas builds from delta.deltas: a later item
\* replaces an earlier one with the same key.
LookupFrom(deltas) ==
    LET keys == {as_relative_path(deltas[i].path) : i \in 1..Len(deltas)}
        lastOf(k) == CHOOSE i \in 1..Len(deltas) :
                        /\ as_relative_path(deltas[i].path) = k
                        /\ \A j \in 1..Len(deltas) :
                              as_relative_path(deltas[j].path) = k => j <= i
    IN [k \in keys |-> deltas[lastOf(k)].stats]

(***************************************************************************)
(* The arguments the calls are made with                                   *)
(***************************************************************************)
ReadPaths == {<<>>, <<"dir1">>, <<"dir1", "dir2">>, <<"a.txt">>}

\* The directories exchange_deltas and read_dir_recurse are called with.
WalkPaths == {<<>>, <<"dir1">>, <<"dir1", "dir2">>}

\* The data write is called with.
WriteData == {"yy"}

\* A baseline a caller holds from elsewhere: the record of a.txt as the
\* fixture has it.
KnownDeltas ==
    <<[path |-> <<"a.txt">>, stats |-> from_path(Fixture, <<"a.txt">>).stats]>>

RootChoices == {<<"dir1">>, <<"dir1", "dir2">>, <<"dir2">>}

ExtChoices == {"txt", "RS"}

FilenameChoices == {"a.txt"}

ChunkSizes == {1, 2}

\* The records a caller may pass to write with data: the record that
\* describes the file (mtime 7), one with another spelling of the time and a
\* wrong size and no digest, one that calls the file a directory, one whose
\* mtime does not parse.
CallerStats(data) ==
    {[size |-> DataLen(data), mtime |-> [ms |-> 7, form |-> "Z"],
      is_directory |-> FALSE, sha256 |-> Some(Sha256Hex(data))],
     [size |-> 9, mtime |-> [ms |-> 7, form |-> "offset"],
      is_directory |-> FALSE, sha256 |-> <<>>],
     [size |-> 0, mtime |-> [ms |-> 7, form |-> "Z"],
      is_directory |-> TRUE, sha256 |-> Some("")],
     [size |-> DataLen(data), mtime |-> [ms |-> 0, form |-> "bad"],
      is_directory |-> FALSE, sha256 |-> Some(Sha256Hex(data))]}

Stale(pv) == [pv EXCEPT !.current = FALSE]

(***************************************************************************)
(* The state after construction                                            *)
(***************************************************************************)
Init ==
    /\ disk = [p \in DiskPaths |->
                  IF p \in DOMAIN Fixture THEN Fixture[p] ELSE NoNode]
    /\ cache \in {with_cache, without_cache}
    /\ filter_set = FilterSetNew
    /\ nops = 0
    /\ prev = NoPrev
    /\ last = NoCall
    /\ m_path = <<>>
    /\ m_dir = FALSE
    /\ m_res = None
    /\ p_probe = NoConv
    /\ touched = <<>>
    /\ tasks = NoTasks

Step ==
    /\ nops < MaxOps /\ nops' = nops + 1
    /\ UNCHANGED <<m_path, m_dir, m_res, p_probe, touched, tasks>>

(***************************************************************************)
(* PortableFs: the calls                                                   *)
(***************************************************************************)
\* PortableFs::read_dir
read_dir(path, ord) ==
    \E w \in {walk_dir(as_abs_path(path), <<>>, cache, filter_set, disk, ord,
                        ReadDirChunkSize, Some(0))} :
    \E got \in {Concat(w.sent)} :
    LET conv == [i \in 1..Len(got) |-> DirectoryEntryTryFrom(got[i])]
        call == [NoCall EXCEPT !.op = "read_dir", !.path = path,
                               !.sent = w.sent, !.locs = w.locs,
                               !.listed = w.listed, !.walk_err = w.err,
                               !.chunk_size = ReadDirChunkSize,
                               !.pre_len = CacheLen(cache),
                               !.pre_filter = filter_set]
    IN /\ cache' = w.cache
       /\ UNCHANGED <<disk, filter_set, prev>>
       /\ last' =
            IF w.err # None THEN [call EXCEPT !.ret = w.err]
            ELSE IF \E i \in 1..Len(conv) : ~ conv[i].ok
            THEN [call EXCEPT !.ret = "InvalidPath"]
            ELSE [call EXCEPT
                    !.current_path = path,
                    !.items = SortBy([i \in 1..Len(conv) |-> conv[i].entry])]

ReadDir == \E path \in ReadPaths, ord \in OsOrders : Step /\ read_dir(path, ord)

\* PortableFs::read_dir_recurse
read_dir_recurse(path, ord) ==
    \E w \in {walk_dir(as_abs_path(path), <<>>, cache, filter_set, disk, ord,
                        ReadDirChunkSize, <<>>)} :
    LET call == [NoCall EXCEPT !.op = "read_dir_recurse", !.path = path,
                               !.sent = w.sent, !.locs = w.locs,
                               !.listed = w.listed, !.walk_err = w.err,
                               !.chunk_size = ReadDirChunkSize,
                               !.pre_len = CacheLen(cache),
                               !.pre_filter = filter_set]
    IN /\ cache' = w.cache
       /\ UNCHANGED <<disk, filter_set, prev>>
       /\ last' = IF w.err # None THEN [call EXCEPT !.ret = w.err]
                  ELSE [call EXCEPT !.items = Concat(w.sent)]

ReadDirRecurse ==
    \E path \in WalkPaths, ord \in OsOrders : Step /\ read_dir_recurse(path, ord)

\* PortableFs::exchange_deltas; items is what the receiver of tx drains.
exchange_deltas(base_dir, deltas, chunk_size, ord) ==
    LET full_path == as_abs_path(base_dir)
        strip_prefix == IF parent(base_dir) # <<>>
                        THEN as_abs_path(parent(base_dir)[1])
                        ELSE full_path
        dir_walker == DirWalkerCreate(strip_prefix, cache, filter_set, disk, ord,
                                      chunk_size, <<>>, LookupFrom(deltas))
    IN
    \E w \in {walk_dir_stream(dir_walker, full_path)} :
    LET after == /\ prev.current
                 /\ prev.base_dir = base_dir
                 /\ deltas = prev.items
    IN /\ cache' = w.cache
       /\ UNCHANGED <<disk, filter_set>>
       /\ prev' = [current |-> TRUE, full |-> (deltas = <<>> /\ w.err = None),
                   base_dir |-> base_dir, items |-> Concat(w.sent)]
       /\ last' = [NoCall EXCEPT !.op = "exchange_deltas", !.path = base_dir,
                                 !.items = Concat(w.sent),
                                 !.sent = w.sent, !.locs = w.locs,
                                 !.listed = w.listed, !.walk_err = w.err,
                                 !.chunk_size = chunk_size,
                                 !.deltas = deltas,
                                 !.after_any = after,
                                 !.after_full = (after /\ prev.full),
                                 !.pre_len = CacheLen(cache),
                                 !.pre_filter = filter_set]

ExchangeDeltas ==
    \E base_dir \in WalkPaths, deltas \in {<<>>, prev.items, KnownDeltas},
       chunk_size \in ChunkSizes, ord \in OsOrders :
        Step /\ exchange_deltas(base_dir, deltas, chunk_size, ord)

\* A faulty write: the file is written whether it exists or not.
write_over_existing(path, data, overwrite, stats, io_ok) ==
    LET full_path == as_abs_path(path)
        call == [NoCall EXCEPT !.op = "write", !.path = path, !.stats = stats,
                               !.pre_cached = (CachePeek(cache, path) # <<>>),
                               !.pre_len = CacheLen(cache),
                               !.pre_filter = filter_set]
        made == IF parent(path) # <<>>
                THEN create_dir_all(disk, as_abs_path(parent(path)[1]), Now)
                ELSE [ok |-> TRUE, disk |-> disk]
        written == fs_write(made.disk, full_path, data, Now)
        mtime == parse_system_time(stats.mtime)
        ret == IF FALSE THEN "FileExists"
               ELSE IF ~ made.ok THEN "Create"
               ELSE IF ~ written.ok THEN "Write"
               ELSE IF ~ mtime.ok THEN "Parse"
               ELSE IF ~ io_ok THEN "Write"
               ELSE "Ok"
    IN /\ disk' = IF ret = "FileExists" \/ ret = "Create" THEN disk
                  ELSE IF ~ written.ok THEN made.disk
                  ELSE IF ret = "Ok"
                  THEN set_modified(written.disk, full_path, mtime.t)
                  ELSE written.disk
       /\ cache' = IF ret = "Ok" THEN CachePut(cache, path, stats) ELSE cache
       /\ prev' = IF disk' # disk \/ cache'.lru # cache.lru
                  THEN Stale(prev) ELSE prev
       /\ UNCHANGED filter_set
       /\ last' = [call EXCEPT !.ret = ret]

\* A faulty write: the record is cached as soon as the bytes are written.
write_caching_early(path, data, overwrite, stats, io_ok) ==
    LET full_path == as_abs_path(path)
        call == [NoCall EXCEPT !.op = "write", !.path = path, !.stats = stats,
                               !.pre_cached = (CachePeek(cache, path) # <<>>),
                               !.pre_len = CacheLen(cache),
                               !.pre_filter = filter_set]
        made == IF parent(path) # <<>>
                THEN create_dir_all(disk, as_abs_path(parent(path)[1]), Now)
                ELSE [ok |-> TRUE, disk |-> disk]
        written == fs_write(made.disk, full_path, data, Now)
        mtime == parse_system_time(stats.mtime)
        ret == IF Exists(disk, full_path) /\ ~ overwrite THEN "FileExists"
               ELSE IF ~ made.ok THEN "Create"
               ELSE IF ~ written.ok THEN "Write"
               ELSE IF ~ mtime.ok THEN "Parse"
               ELSE IF ~ io_ok THEN "Write"
               ELSE "Ok"
    IN /\ disk' = IF ret = "FileExists" \/ ret = "Create" THEN disk
                  ELSE IF ~ written.ok THEN made.disk
                  ELSE IF ret = "Ok"
                  THEN set_modified(written.disk, full_path, mtime.t)
                  ELSE written.disk
       /\ cache' = IF ret \in {"Ok", "Parse", "Write"} /\ written.ok
                   THEN CachePut(cache, path, stats) ELSE cache
       /\ prev' = IF disk' # disk \/ cache'.lru # cache.lru
                  THEN Stale(prev) ELSE prev
       /\ UNCHANGED filter_set
       /\ last' = [call EXCEPT !.ret = ret]

\* PortableFs::write; io_ok tells whether opening the file and setting its
\* modification time succeeds.
write(path, data, overwrite, stats, io_ok) ==
    LET full_path == as_abs_path(path)
        call == [NoCall EXCEPT !.op = "write", !.path = path, !.stats = stats,
                               !.pre_cached = (CachePeek(cache, path) # <<>>),
                               !.pre_len = CacheLen(cache),
                               !.pre_filter = filter_set]
        made == IF parent(path) # <<>>
                THEN create_dir_all(disk, as_abs_path(parent(path)[1]), Now)
                ELSE [ok |-> TRUE, disk |-> disk]
        written == fs_write(made.disk, full_path, data, Now)
        mtime == parse_system_time(stats.mtime)
        ret == IF Exists(disk, full_path) /\ ~ overwrite THEN "FileExists"
               ELSE IF ~ made.ok THEN "Create"
               ELSE IF ~ written.ok THEN "Write"
               ELSE IF ~ mtime.ok THEN "Parse"
               ELSE IF ~ io_ok THEN "Write"
               ELSE "Ok"
    IN /\ disk' = IF ret = "FileExists" \/ ret = "Create" THEN disk
                  ELSE IF ~ written.ok THEN made.disk
                  ELSE IF ret = "Ok"
                  THEN set_modified(written.disk, full_path, mtime.t)
                  ELSE written.disk
       /\ cache' = IF ret = "Ok" THEN CachePut(cache, path, stats) ELSE cache
       /\ prev' = IF disk' # disk \/ cache'.lru # cache.lru
                  THEN Stale(prev) ELSE prev
       /\ UNCHANGED filter_set
       /\ last' = [call EXCEPT !.ret = ret]

Write ==
    \E path \in WritePaths, data \in WriteData, overwrite \in BOOLEAN :
        \E stats \in CallerStats(data) :
            \E io_ok \in IF parse_system_time(stats.mtime).ok
                          THEN BOOLEAN ELSE {TRUE} :
                Step /\ write(path, data, overwrite, stats, io_ok)

\* A faulty delete_file: the cache entry is dropped before the removal.
delete_file_popping_first(path, io_ok) ==
    LET full_path == as_abs_path(path)
        ret == IF ~ Exists(disk, full_path) THEN "InvalidArgument"
               ELSE IF IsDir(disk, full_path) THEN "InvalidArgument"
               ELSE IF ~ io_ok THEN "Delete"
               ELSE "Ok"
    IN /\ disk' = IF ret = "Ok" THEN remove_file(disk, full_path, Now) ELSE disk
       /\ cache' = IF ret \in {"Ok", "Delete"} THEN CachePop(cache, path)
                                                ELSE cache
       /\ prev' = IF ret = "Ok" THEN Stale(prev) ELSE prev
       /\ UNCHANGED filter_set
       /\ last' = [NoCall EXCEPT !.op = "delete_file", !.path = path,
                                 !.ret = ret,
                                 !.pre_cached = (CachePeek(cache, path) # <<>>),
                                 !.pre_len = CacheLen(cache),
                                 !.pre_filter = filter_set]

\* PortableFs::delete_file; io_ok tells whether remove_file succeeds.
delete_file(path, io_ok) ==
    LET full_path == as_abs_path(path)
        ret == IF ~ Exists(disk, full_path) THEN "InvalidArgument"
               ELSE IF IsDir(disk, full_path) THEN "InvalidArgument"
               ELSE IF ~ io_ok THEN "Delete"
               ELSE "Ok"
    IN /\ disk' = IF ret = "Ok" THEN remove_file(disk, full_path, Now) ELSE disk
       /\ cache' = IF ret = "Ok" THEN CachePop(cache, path) ELSE cache
       /\ prev' = IF ret = "Ok" THEN Stale(prev) ELSE prev
       /\ UNCHANGED filter_set
       /\ last' = [NoCall EXCEPT !.op = "delete_file", !.path = path,
                                 !.ret = ret,
                                 !.pre_cached = (CachePeek(cache, path) # <<>>),
                                 !.pre_len = CacheLen(cache),
                                 !.pre_filter = filter_set]

DeleteFile ==
    \E path \in WritePaths, io_ok \in BOOLEAN : Step /\ delete_file(path, io_ok)

\* The paths and the base directories Path::lookup is called with.
LookupPaths == {<<"a.txt">>, <<"b.txt">>}

LookupBases == {<<>>, <<"dir2">>}

\* Path::lookup(base_dir): the FileInfo of the path and of what get_file_stat
\* returns.
lookup(path, base_dir) ==
    /\ last' = [NoCall EXCEPT !.op = "lookup", !.path = path,
                              !.base_dir = base_dir,
                              !.ret = get_file_stat(path, base_dir, disk).ret,
                              !.stats = get_file_stat(path, base_dir, disk).stats,
                              !.pre_len = CacheLen(cache),
                              !.pre_filter = filter_set]
    /\ UNCHANGED <<disk, cache, filter_set, prev>>

Lookup ==
    \E path \in LookupPaths, base_dir \in LookupBases :
        Step /\ lookup(path, base_dir)

\* PortableFs::allow_path / deny_path / allow_extension / allow_filename:
\* the mutator of the filter set, under the write lock.
Mutate(op, arg, fs) ==
    /\ filter_set' = fs
    /\ prev' = Stale(prev)
    /\ UNCHANGED <<disk, cache>>
    /\ last' = [NoCall EXCEPT !.op = op, !.path = arg,
                              !.pre_len = CacheLen(cache),
                              !.pre_filter = filter_set]

AllowPath ==
    \E root \in RootChoices :
        Step /\ Mutate("allow_path", root, allow_path(filter_set, root))

DenyPath ==
    \E root \in RootChoices :
        Step /\ Mutate("deny_path", root, deny_path(filter_set, root))

AllowExtension ==
    \E ext \in ExtChoices :
        Step /\ Mutate("allow_extension", <<ext>>, allow_extension(filter_set, ext))

AllowFilename ==
    \E name \in FilenameChoices :
        Step /\ Mutate("allow_filename", <<name>>, allow_filename(filter_set, name))

Next ==
    \/ ReadDir
    \/ ReadDirRecurse
    \/ ExchangeDeltas
    \/ Write
    \/ DeleteFile
    \/ Lookup
    \/ AllowPath
    \/ DenyPath
    \/ AllowExtension
    \/ AllowFilename

Spec == Init /\ [][Next]_vars

(***************************************************************************)
(* FilterSet on its own: the mutators of src/src/filter.rs and matches,    *)
(* called on the facade's filter set with paths of the model.              *)
(***************************************************************************)
\* The roots allow_path and deny_path are called with.
FilterRoots == RootChoices

\* The extension allow_extension is called with.
FilterExts == {"RS"}

\* The paths matches is called with.
ProbePaths ==
    {<<"a.txt">>, <<"dir1">>, <<"dir1", "b.RS">>, <<"dir1", "dir2">>,
     <<"dir1", "dir2", "a.txt">>, <<"dir2", "a.txt">>, <<"dir2">>}

\* A facade as with_cache builds it, before any call.
InitFilter == Init /\ cache = with_cache

Unprobed ==
    /\ m_path' = <<>> /\ m_dir' = FALSE /\ m_res' = None
    /\ UNCHANGED <<nops, p_probe, touched, tasks>>

\* FilterSet::allow_path
FilterAllowPath ==
    \E root \in FilterRoots :
        /\ Len(filter_set.allowed_roots) < MaxFilterRoots
        /\ Mutate("allow_path", root, allow_path(filter_set, root))
        /\ Unprobed

\* FilterSet::deny_path
FilterDenyPath ==
    \E root \in FilterRoots :
        /\ Len(filter_set.denied_roots) < MaxFilterRoots
        /\ Mutate("deny_path", root, deny_path(filter_set, root))
        /\ Unprobed

\* FilterSet::allow_extension
FilterAllowExtension ==
    \E ext \in FilterExts :
        /\ Mutate("allow_extension", <<ext>>, allow_extension(filter_set, ext))
        /\ Unprobed

\* FilterSet::allow_filename
FilterAllowFilename ==
    \E name \in FilenameChoices :
        /\ Mutate("allow_filename", <<name>>, allow_filename(filter_set, name))
        /\ Unprobed

\* FilterSet::matches(path, is_dir)
Matches ==
    \E path \in ProbePaths, is_dir \in BOOLEAN :
        /\ m_path' = path
        /\ m_dir' = is_dir
        /\ m_res' = matches(filter_set, path, is_dir)
        /\ UNCHANGED <<disk, cache, filter_set, nops, prev, last, p_probe,
                       touched, tasks>>

NextFilter ==
    \/ FilterAllowPath
    \/ FilterDenyPath
    \/ FilterAllowExtension
    \/ FilterAllowFilename
    \/ Matches

SpecFilter == InitFilter /\ [][NextFilter]_vars

(***************************************************************************)
(* Path on its own (src/src/path.rs): the fallible constructors, serde and *)
(* append_to. Here a string is a sequence of characters, a host path is a  *)
(* string with the separator "/", and std::path is the Unix one.           *)
(***************************************************************************)
MaxComps == 3            \* components in a probed sequence

\* The component strings the constructors are probed with:
\* "", "a", ".", "..", ".a", "/a" and "a\".
PathComponents ==
    {<<>>, <<"a">>, <<".">>, <<".", ".">>, <<".", "a">>, <<"/", "a">>,
     <<"a", "\\">>}

ComponentLists ==
    UNION {[1..n -> PathComponents] : n \in 0..MaxComps}

\* str::contains(char)
Contains(s, ch) == \E i \in 1..Len(s) : s[i] = ch

PathOk(components) ==
    [ok |-> TRUE, err |-> None, path |-> components]

PathErr(e) == [ok |-> FALSE, err |-> e, path |-> <<>>]

RECURSIVE TryFromLoop(_, _, _)
\* The loop of TryFrom<&[T]>: c is the vector built so far.
TryFromLoop(components, i, c) ==
    IF i > Len(components)
    THEN PathOk(c)
    ELSE IF Contains(components[i], "/") \/ Contains(components[i], "\\")
    THEN PathErr("InvalidArgument")
    ELSE IF \/ components[i] = <<".">>
            \/ components[i] = <<".", ".">>
            \/ components[i] = <<>>
    THEN PathErr("InvalidArgument")
    ELSE TryFromLoop(components, i + 1, Append(c, components[i]))

\* A faulty TryFrom<&[T]>: only the forward slash is looked for.
PathTryFromSlashOnly(components) ==
    IF \E i \in 1..Len(components) :
           \/ Contains(components[i], "/")
           \/ components[i] \in {<<".">>, <<".", ".">>, <<>>}
    THEN PathErr("InvalidArgument")
    ELSE PathOk(components)

\* impl TryFrom<&[T]> for Path
PathTryFrom(components) == TryFromLoop(components, 1, <<>>)

\* serde_json's text of one string: quotes around it, a backslash before
\* every quote and backslash.
JsonString(str) ==
    <<"\"">>
    \o Concat([i \in 1..Len(str) |->
                  IF str[i] \in {"\"", "\\"} THEN <<"\\", str[i]>>
                                             ELSE <<str[i]>>])
    \o <<"\"">>

\* Serialize for Path (derived): {"components":[...]}; the quoted field name
\* is one token.
Serialize(components) ==
    <<"{", "components", ":", "[">>
    \o Concat([i \in 1..Len(components) |->
                  (IF i > 1 THEN <<",">> ELSE <<>>)
                  \o JsonString(components[i])])
    \o <<"]", "}">>

\* One character of Vec::<String>::deserialize over the text of the array.
JsonStep(text, s) ==
    IF ~ s.in
    THEN IF text[s.i] = "\""
         THEN [s EXCEPT !.i = @ + 1, !.in = TRUE, !.cur = <<>>]
         ELSE [s EXCEPT !.i = @ + 1]
    ELSE IF text[s.i] = "\\"
    THEN [s EXCEPT !.i = @ + 2, !.cur = Append(@, text[s.i + 1])]
    ELSE IF text[s.i] = "\""
    THEN [s EXCEPT !.i = @ + 1, !.in = FALSE, !.acc = Append(@, s.cur)]
    ELSE [s EXCEPT !.i = @ + 1, !.cur = Append(@, text[s.i])]

RECURSIVE JsonLoop(_, _)
JsonLoop(text, s) ==
    IF s.i > Len(text) THEN s
    ELSE Let(JsonStep(text, s), LAMBDA n : JsonLoop(text, n))

\* deserialize_components: the vector of strings, then the check of it.
deserialize_components(text) ==
    Let(JsonLoop(text, [i |-> 1, in |-> FALSE, cur |-> <<>>, acc |-> <<>>]).acc,
        LAMBDA components :
            IF \E i \in 1..Len(components) :
                   components[i] = <<".", ".">> \/ components[i] = <<".">>
            THEN PathErr("parse")
            ELSE PathOk(components))

\* Deserialize for Path (derived): the field components, read with
\* deserialize_components.
Deserialize(text) ==
    IF Len(text) < 6 \/ SubSeq(text, 1, 3) # <<"{", "components", ":">>
    THEN PathErr("parse")
    ELSE deserialize_components(SubSeq(text, 4, Len(text) - 1))

\* std::path::Path::components on Unix, as strings: the root directory is
\* "/", empty components and "." are dropped except a "." that starts the
\* path, ".." is kept.
StdComponents(host) ==
    LET starts == {i \in 1..Len(host) :
                      host[i] # "/" /\ (i = 1 \/ host[i - 1] = "/")}
        nth(k) == CHOOSE i \in starts :
                      Cardinality({j \in starts : j < i}) = k - 1
        stop(i) == CHOOSE j \in i..Len(host) :
                      /\ j = Len(host) \/ host[j + 1] = "/"
                      /\ \A k \in i..j : host[k] # "/"
        parts == [k \in 1..Cardinality(starts) |->
                     [at |-> nth(k), str |-> SubSeq(host, nth(k), stop(nth(k)))]]
        kept == SelectSeq(parts, LAMBDA q : q.str # <<".">> \/ q.at = 1)
    IN  (IF host # <<>> /\ host[1] = "/" THEN <<<<"/">>>> ELSE <<>>)
        \o [k \in 1..Len(kept) |-> kept[k].str]

\* impl TryFrom<&StdPath> for Path, and through it TryFrom<&PathBuf>
PathTryFromHost(host) ==
    IF host = <<".">> \/ host = <<".", ".">>
    THEN PathErr("InvalidArgument")
    ELSE PathOk(SelectSeq(StdComponents(host), LAMBDA c : c # <<"/">>))

\* PathBuf::push on Unix: an absolute component replaces the path, any other
\* is added after a separator.
PathBufPush(buf, comp) ==
    IF comp # <<>> /\ comp[1] = "/" THEN comp
    ELSE IF buf # <<>> /\ buf[Len(buf)] # "/" THEN buf \o <<"/">> \o comp
    ELSE buf \o comp

RECURSIVE AppendToHost(_, _)
\* Path::append_to over host strings: base_dir is the path built so far.
AppendToHost(components, base_dir) ==
    IF components = <<>> THEN base_dir
    ELSE Let(PathBufPush(base_dir, Head(components)),
             LAMBDA ret : AppendToHost(Tail(components), ret))

\* The base directory the probed paths are appended to: "/r".
HostBase == <<"/", "r">>

\* The host path that spells a sequence of strings: they are joined with the
\* separator.
HostOf(strs) ==
    Concat([i \in 1..Len(strs) |->
               (IF i > 1 THEN <<"/">> ELSE <<>>) \o strs[i]])

InitPath ==
    /\ disk = [p \in DiskPaths |->
                  IF p \in DOMAIN Fixture THEN Fixture[p] ELSE NoNode]
    /\ cache = with_cache
    /\ filter_set = FilterSetNew
    /\ nops = 0
    /\ prev = NoPrev
    /\ last = NoCall
    /\ m_path = <<>>
    /\ m_dir = FALSE
    /\ m_res = None
    /\ p_probe \in {[NoConv EXCEPT !.input = l] : l \in ComponentLists}
    /\ touched = <<>>
    /\ tasks = NoTasks

Constructed(name, res) ==
    /\ p_probe' = [p_probe EXCEPT !.op = name, !.ctor = name, !.ok = res.ok,
                            !.err = res.err, !.path = res.path,
                            !.orig = <<>>, !.out = <<>>]
    /\ UNCHANGED <<disk, cache, filter_set, nops, prev, last,
                   m_path, m_dir, m_res, touched, tasks>>

\* Path::try_from(&[T]) on the probed sequence
FromComponents == Constructed("from_components", PathTryFrom(p_probe.input))

\* Path::try_from(&StdPath) on the host path that spells the probed sequence
FromHostPath == Constructed("from_host_path", PathTryFromHost(HostOf(p_probe.input)))

\* serde_json::from_str::<Path> on the document whose components array is
\* the probed sequence
FromJson == Constructed("deserialize", Deserialize(Serialize(p_probe.input)))

\* serde_json::to_string of the Path just constructed, then from_str of it
SerializeDeserialize ==
    /\ p_probe.ok /\ p_probe.op = p_probe.ctor /\ p_probe.op # "none"
    /\ \E res \in {Deserialize(Serialize(p_probe.path))} :
           p_probe' = [p_probe EXCEPT !.op = "round_trip", !.ok = res.ok,
                                !.err = res.err, !.path = res.path,
                                !.orig = p_probe.path,
                                !.out = Serialize(p_probe.path)]
    /\ UNCHANGED <<disk, cache, filter_set, nops, prev, last,
                   m_path, m_dir, m_res, touched, tasks>>

\* Path::append_to(base) of the Path just constructed
AppendTo ==
    /\ p_probe.ok /\ p_probe.op = p_probe.ctor /\ p_probe.op # "none"
    /\ p_probe' = [p_probe EXCEPT !.op = "append_to",
                            !.out = AppendToHost(p_probe.path, HostBase)]
    /\ UNCHANGED <<disk, cache, filter_set, nops, prev, last,
                   m_path, m_dir, m_res, touched, tasks>>

NextPath ==
    \/ FromComponents
    \/ FromHostPath
    \/ FromJson
    \/ SerializeDeserialize
    \/ AppendTo

SpecPath == InitPath /\ [][NextPath]_vars

(***************************************************************************)
(* FsCache on its own (src/src/cache.rs): get, put and pop on a cache of a *)
(* small capacity, so that entries are evicted.                            *)
(***************************************************************************)
MaxCapacity == 2         \* the capacity FsCache::new is given
MaxCacheOps == 4         \* calls of get, put and pop

\* The keys the cache is called with.
CacheProbeKeys == {<<"a.txt">>, <<"dir1">>, <<"dir1", "b.RS">>}

\* The records put: what from_path gives for a.txt and for dir1.
CacheProbeValues == {from_path(disk, <<"a.txt">>).stats,
                     from_path(disk, <<"dir1">>).stats}

InitCache ==
    /\ disk = [p \in DiskPaths |->
                  IF p \in DOMAIN Fixture THEN Fixture[p] ELSE NoNode]
    /\ cache \in {FsCacheNew(capacity) : capacity \in 1..MaxCapacity}
    /\ filter_set = FilterSetNew
    /\ nops = 0
    /\ prev = NoPrev
    /\ last = NoCall
    /\ m_path = <<>>
    /\ m_dir = FALSE
    /\ m_res = None
    /\ p_probe = NoConv
    /\ touched = <<>>
    /\ tasks = NoTasks

\* One call on the cache: what it leaves and what it returned.
CacheCall(op, key, c, value) ==
    /\ nops < MaxCacheOps
    /\ nops' = nops + 1
    /\ cache' = c
    /\ last' = [NoCall EXCEPT !.op = op, !.path = key,
                              !.items = value,
                              !.pre_cached = (CachePeek(cache, key) # <<>>),
                              !.pre_len = CacheLen(cache)]
    /\ UNCHANGED <<disk, filter_set, prev, m_path, m_dir, m_res, p_probe,
                   tasks>>

\* Cache::get on FsCache
Get ==
    \E key \in CacheProbeKeys :
        /\ CacheCall("get", key, CacheGet(cache, key).cache,
                     CacheGet(cache, key).value)
        /\ touched' = IF CacheGet(cache, key).value # <<>>
                      THEN (key :> Now) @@ touched ELSE touched

\* Cache::put on FsCache
Put ==
    \E key \in CacheProbeKeys, value \in CacheProbeValues :
        /\ CacheCall("put", key, CachePut(cache, key, value), <<value>>)
        /\ touched' = (key :> Now) @@ touched

\* Cache::pop on FsCache
Pop ==
    \E key \in CacheProbeKeys :
        /\ CacheCall("pop", key, CachePop(cache, key), CachePeek(cache, key))
        /\ UNCHANGED touched

NextCache == Get \/ Put \/ Pop

SpecCache == InitCache /\ [][NextCache]_vars

(***************************************************************************)
(* A walk in progress (src/src/native_fs.rs): the walker task goes from    *)
(* one await to the next, its chunks go through a bounded channel to the   *)
(* receiver, and facade calls of other tasks come in between. The cache    *)
(* mutex and the filter set lock are taken and released inside one step    *)
(* unless HeldAfter says otherwise.                                        *)
(***************************************************************************)
MaxChan == 1             \* capacity of the small channel
MaxMeddle == 1           \* facade calls made while walks are in progress

\* The capacity of the channel walk_dir creates.
WalkDirChannel == 100

\* The capacity of the channel the tests give to exchange_deltas.
TestChannel == 10

\* A faulty lookup_or_load: the guard taken for the get lives to the end of
\* the if let, else block included, so it is held across the load.
HeldAfterKeepingScrutinee(section, hit) ==
    IF section = "get" /\ ~ hit THEN {"cache"} ELSE {}

\* The locks a task still holds when a critical section is left: the guard
\* is a temporary of the if let scrutinee or of the let statement and is
\* dropped before the next await. hit tells whether the get found the key.
\* (The else block of lookup_or_load awaits the load and locks the mutex
\* again: with a guard that lived through the else block the walker future
\* would not be Send, which tokio::spawn in walk_dir requires, and the second
\* lock would never be granted.)
HeldAfter(section, hit) == {}

LockFree(lock) ==
    \A j \in WalkerIds :
       IF tasks[j].state = "idle" THEN TRUE ELSE lock \notin tasks[j].holds

\* A walker task about to call walk_recursive(full_path, 0), with its
\* channel of capacity cap and the receiver of it.
NewTask(kind, w, full_path, cap) ==
    [state |-> "running", kind |-> kind, w |-> w, pc |-> "enter",
     cur |-> [entry_path |-> full_path, rel |-> <<>>, path |-> <<>>,
              stats |-> NoStat, level |-> None, depth |-> 0],
     after |-> "visit", holds |-> {}, looked |-> {},
     chan |-> <<>>, cap |-> cap, rx |-> "open", got |-> <<>>,
     ret |-> None, items |-> <<>>]

\* The step of task i leaves it as t and the cache as c.
Walked(i, t, c) ==
    /\ tasks' = [tasks EXCEPT ![i] = t]
    /\ cache' = c
    /\ UNCHANGED <<disk, filter_set, nops, prev, last, m_path, m_dir, m_res,
                   p_probe, touched>>

\* read_dir_recurse("") up to the spawn in walk_dir, or exchange_deltas("")
\* with no deltas up to the call of walk_dir_stream.
StartWalk(i) ==
    /\ tasks[i].state = "idle"
    /\ \E ord \in OsOrders :
          \/ \E cap \in {MaxChan, WalkDirChannel} :
                Walked(i, NewTask("walk_dir",
                                  DirWalkerCreate(<<>>, without_cache, filter_set,
                                                  <<>>, ord, ReadDirChunkSize,
                                                  <<>>, <<>>),
                                  as_abs_path(<<>>), cap), cache)
          \/ \E chunk_size \in ChunkSizes :
             \E cap \in IF chunk_size = 1 THEN {MaxChan, TestChannel}
                                           ELSE {MaxChan} :
                Walked(i, NewTask("exchange_deltas",
                                  DirWalkerCreate(as_abs_path(<<>>), without_cache,
                                                  filter_set, <<>>, ord,
                                                  chunk_size, <<>>,
                                                  LookupFrom(<<>>)),
                                  as_abs_path(<<>>), cap), cache)

\* walk_recursive, the head of the loop: the return of the activation after
\* the last entry, or the next entry up to the cache get of lookup_or_load.
Visit(i) ==
    /\ tasks[i].state = "running" /\ tasks[i].pc = "visit"
    /\ LET t == tasks[i] IN
       IF t.w.stack = <<>>
       THEN Walked(i, [t EXCEPT !.pc = "done"], cache)
       ELSE IF Head(t.w.stack).entries = <<>>
       THEN IF t.w.chunks # <<>>
            THEN Walked(i, [t EXCEPT !.pc = "send", !.after = "return"], cache)
            ELSE Walked(i, [t EXCEPT !.w.stack = Tail(@)], cache)
       ELSE
       LET entry_path == Head(Head(t.w.stack).entries)
           sp == StripPrefix(entry_path, t.w.strip_prefix)
           pp == PathTryFromStd(sp.rel)
           t1 == [t EXCEPT !.w.stack[1].entries = Tail(@),
                           !.cur = [entry_path |-> entry_path, rel |-> sp.rel,
                                    path |-> pp.path, stats |-> NoStat,
                                    level |-> None,
                                    depth |-> Head(t.w.stack).depth + 1]]
       IN IF ~ sp.ok
          THEN Walked(i, [t1 EXCEPT !.w = Fail(@, "Read"), !.pc = "done"], cache)
          ELSE IF ~ pp.ok
          THEN Walked(i, [t1 EXCEPT !.w = Fail(@, "InvalidArgument"),
                                    !.pc = "done"], cache)
          ELSE /\ LockFree("cache")
               /\ \E got \in {CacheGet(cache, pp.path)} :
                     Walked(i, [t1 EXCEPT
                                  !.looked = @ \cup {entry_path},
                                  !.holds = HeldAfter("get", got.value # <<>>),
                                  !.cur.stats = IF got.value # <<>>
                                                THEN got.value[1] ELSE NoStat,
                                  !.pc = IF got.value # <<>>
                                         THEN "match" ELSE "load"],
                            got.cache)

\* A faulty walker: an entry that cannot be loaded is skipped and the walk
\* goes on with the next one.
LoadSkippingFailure(i) ==
    /\ tasks[i].state = "running" /\ tasks[i].pc = "load"
    /\ LET t == tasks[i] IN
       \E loaded \in {from_path(disk, t.cur.entry_path)} :
          IF loaded.ok
          THEN Walked(i, [t EXCEPT !.cur.stats = loaded.stats, !.pc = "put"],
                      cache)
          ELSE Walked(i, [t EXCEPT !.pc = "visit", !.holds = {}], cache)

\* lookup_or_load after a miss: FileStat::from_path
Load(i) ==
    /\ tasks[i].state = "running" /\ tasks[i].pc = "load"
    /\ LET t == tasks[i] IN
       \E loaded \in {from_path(disk, t.cur.entry_path)} :
          IF loaded.ok
          THEN Walked(i, [t EXCEPT !.cur.stats = loaded.stats, !.pc = "put"],
                      cache)
          ELSE Walked(i, [t EXCEPT !.w = Fail(@, "Read"), !.pc = "done",
                                   !.holds = {}], cache)

\* A faulty put after the load: the record is added in front of the ones
\* the cache holds, also of one with the same key.
PutLoadedInFront(i) ==
    /\ tasks[i].state = "running" /\ tasks[i].pc = "put"
    /\ LockFree("cache")
    /\ LET t == tasks[i] IN
       Walked(i, [t EXCEPT !.holds = HeldAfter("put", FALSE), !.pc = "match"],
              [cache EXCEPT !.lru = <<[key |-> t.cur.path,
                                       value |-> t.cur.stats]>> \o @])

\* lookup_or_load after the load: the cache put
PutLoaded(i) ==
    /\ tasks[i].state = "running" /\ tasks[i].pc = "put"
    /\ LockFree("cache")
    /\ LET t == tasks[i] IN
       Walked(i, [t EXCEPT !.holds = HeldAfter("put", FALSE), !.pc = "match"],
              CachePut(cache, t.cur.path, t.cur.stats))

\* A faulty walker: matches is called on the copy of the filter set the
\* walker took when it was created.
MatchOnSnapshot(i) ==
    /\ tasks[i].state = "running" /\ tasks[i].pc = "match"
    /\ LET t == tasks[i]
           is_dir == t.cur.stats.is_directory
           filter_level == matches(t.w.filter_set, t.cur.rel, is_dir)
           skip_push == /\ t.cur.rel \in DOMAIN t.w.lookup
                        /\ t.w.lookup[t.cur.rel] = t.cur.stats
           goes == IF filter_level # Deny /\ is_dir THEN "enter" ELSE "visit"
           t1 == [t EXCEPT !.cur.level = filter_level,
                           !.holds = HeldAfter("matches", FALSE)]
       IN IF filter_level = Allow /\ ~ skip_push
          THEN LET t2 == [t1 EXCEPT
                            !.w.chunks = Append(@, [path |-> t.cur.path,
                                                    stats |-> t.cur.stats]),
                            !.w.locs = Append(@, t.cur.entry_path)]
               IN IF Len(t2.w.chunks) = t.w.chunk_size
                  THEN Walked(i, [t2 EXCEPT !.pc = "send", !.after = goes], cache)
                  ELSE Walked(i, [t2 EXCEPT !.pc = goes], cache)
          ELSE Walked(i, [t1 EXCEPT !.pc = goes], cache)

\* walk_recursive from the matches call on the shared filter set to the next
\* await: the send of a full chunk, the recursive call or the next entry.
Match(i) ==
    /\ tasks[i].state = "running" /\ tasks[i].pc = "match"
    /\ LET t == tasks[i]
           is_dir == t.cur.stats.is_directory
           filter_level == matches(filter_set, t.cur.rel, is_dir)
           skip_push == /\ t.cur.rel \in DOMAIN t.w.lookup
                        /\ t.w.lookup[t.cur.rel] = t.cur.stats
           goes == IF filter_level # Deny /\ is_dir THEN "enter" ELSE "visit"
           t1 == [t EXCEPT !.cur.level = filter_level,
                           !.holds = HeldAfter("matches", FALSE)]
       IN IF filter_level = Allow /\ ~ skip_push
          THEN LET t2 == [t1 EXCEPT
                            !.w.chunks = Append(@, [path |-> t.cur.path,
                                                    stats |-> t.cur.stats]),
                            !.w.locs = Append(@, t.cur.entry_path)]
               IN IF Len(t2.w.chunks) = t.w.chunk_size
                  THEN Walked(i, [t2 EXCEPT !.pc = "send", !.after = goes], cache)
                  ELSE Walked(i, [t2 EXCEPT !.pc = goes], cache)
          ELSE Walked(i, [t1 EXCEPT !.pc = goes], cache)

\* A faulty write_chunks: the failure of the send is ignored and the walk goes
\* on as after a send.
SendIgnoringFailure(i) ==
    /\ tasks[i].state = "running" /\ tasks[i].pc = "send"
    /\ LET t == tasks[i] IN
       /\ t.rx = "dropped" \/ Len(t.chan) < t.cap
       /\ Walked(i, [t EXCEPT
                       !.chan = IF t.rx = "dropped" THEN <<>>
                                ELSE Append(@, t.w.chunks),
                       !.w = IF t.after = "return"
                             THEN [write_chunks(t.w) EXCEPT !.stack = Tail(@)]
                             ELSE write_chunks(t.w),
                       !.pc = IF t.after = "return" THEN "visit"
                              ELSE t.after],
                 cache)

\* write_chunks: tx.send(..).await waits while the channel is full and fails
\* once the receiver is gone.
Send(i) ==
    /\ tasks[i].state = "running" /\ tasks[i].pc = "send"
    /\ LET t == tasks[i] IN
       IF t.rx = "dropped"
       THEN Walked(i, [t EXCEPT !.w = Fail(@, "Sync"), !.pc = "done"], cache)
       ELSE /\ Len(t.chan) < t.cap
            /\ Walked(i, [t EXCEPT
                            !.chan = Append(@, t.w.chunks),
                            !.w = IF t.after = "return"
                                  THEN [write_chunks(t.w) EXCEPT !.stack = Tail(@)]
                                  ELSE write_chunks(t.w),
                            !.pc = IF t.after = "return" THEN "visit"
                                   ELSE t.after],
                      cache)

\* walk_recursive, its start: the depth check and async_fs::read_dir
Enter(i) ==
    /\ tasks[i].state = "running" /\ tasks[i].pc = "enter"
    /\ LET t == tasks[i] IN
       \E n \in {[WalkEnter([t.w EXCEPT !.disk = disk], t.cur.entry_path,
                            t.cur.depth) EXCEPT !.disk = <<>>]} :
          Walked(i, [t EXCEPT !.w = n,
                              !.pc = IF n.err # None THEN "done" ELSE "visit"],
                 cache)

\* A faulty driver: it joins the walker task first and takes the chunks out
\* of the channel after that.
DrainAfterJoin(i) ==
    /\ tasks[i].state # "idle" /\ tasks[i].rx = "open"
    /\ tasks[i].chan # <<>>
    /\ tasks[i].pc = "done"
    /\ Walked(i, [tasks[i] EXCEPT !.got = Append(@, Head(tasks[i].chan)),
                                  !.chan = Tail(@)], cache)

\* rx.recv().await gives the oldest chunk in the channel.
Drain(i) ==
    /\ tasks[i].state # "idle" /\ tasks[i].rx = "open"
    /\ tasks[i].chan # <<>>
    /\ Walked(i, [tasks[i] EXCEPT !.got = Append(@, Head(tasks[i].chan)),
                                  !.chan = Tail(@)], cache)

\* The caller of exchange_deltas drops the receiver; what is in the channel
\* goes with it.
DropReceiver(i) ==
    /\ tasks[i].state = "running" /\ tasks[i].kind = "exchange_deltas"
    /\ tasks[i].rx = "open"
    /\ Walked(i, [tasks[i] EXCEPT !.rx = "dropped", !.chan = <<>>], cache)

\* A faulty end of the call: exchange_deltas gives the error of the walk to
\* its caller.
FinishPassingError(i) ==
    /\ tasks[i].state = "running" /\ tasks[i].pc = "done"
    /\ LET t == tasks[i] IN
       /\ t.kind = "walk_dir" => t.chan = <<>>
       /\ Walked(i, [t EXCEPT
                       !.state = "returned",
                       !.ret = IF t.w.err # None THEN t.w.err ELSE "Ok",
                       !.items = IF t.w.err # None \/ t.kind # "walk_dir"
                                 THEN <<>> ELSE Concat(t.got)], cache)

\* A faulty end of the call: exchange_deltas too returns only when the
\* channel is empty.
FinishWhenDrained(i) ==
    /\ tasks[i].state = "running" /\ tasks[i].pc = "done"
    /\ tasks[i].chan = <<>>
    /\ LET t == tasks[i] IN
       IF t.kind = "walk_dir"
       THEN Walked(i, [t EXCEPT
                         !.state = "returned",
                         !.ret = IF t.w.err # None THEN t.w.err ELSE "Ok",
                         !.items = IF t.w.err # None THEN <<>>
                                   ELSE Concat(t.got)], cache)
       ELSE Walked(i, [t EXCEPT !.state = "returned", !.ret = "Ok"], cache)

\* The call returns: walk_dir when recv has given None (the walker task has
\* ended and the channel is empty) with the joined result, exchange_deltas
\* when walk_dir_stream has returned, whatever it returned.
Finish(i) ==
    /\ tasks[i].state = "running" /\ tasks[i].pc = "done"
    /\ LET t == tasks[i] IN
       IF t.kind = "walk_dir"
       THEN /\ t.chan = <<>>
            /\ Walked(i, [t EXCEPT
                            !.state = "returned",
                            !.ret = IF t.w.err # None THEN t.w.err ELSE "Ok",
                            !.items = IF t.w.err # None THEN <<>>
                                      ELSE Concat(t.got)], cache)
       ELSE Walked(i, [t EXCEPT !.state = "returned", !.ret = "Ok"], cache)

\* A facade call of another task: write of a.txt, delete_file of a.txt or
\* of dir1/b.RS, deny_path of dir1.
Meddle ==
    /\ nops < MaxMeddle
    /\ nops' = nops + 1
    /\ UNCHANGED <<m_path, m_dir, m_res, p_probe, touched, tasks>>
    /\ \/ /\ LockFree("cache")
          /\ \E stats \in {st \in CallerStats("yy") :
                              st.mtime.form = "Z" /\ ~ st.is_directory} :
                write(<<"a.txt">>, "yy", TRUE, stats, TRUE)
       \/ /\ LockFree("cache")
          /\ \E path \in {<<"a.txt">>, <<"dir1", "b.RS">>} :
                delete_file(path, TRUE)
       \/ /\ LockFree("filter")
          /\ Mutate("deny_path", <<"dir1">>, deny_path(filter_set, <<"dir1">>))

InitWalk == Init /\ cache = with_cache

NextWalk ==
    \/ \E i \in {1} :
          \/ StartWalk(i) \/ Visit(i) \/ Load(i) \/ PutLoaded(i) \/ Match(i)
          \/ Send(i) \/ Enter(i) \/ Drain(i) \/ DropReceiver(i) \/ Finish(i)
    \/ Meddle

SpecWalk == InitWalk /\ [][NextWalk]_vars

\* The runtime runs a task that can go on, and the drain loop of walk_dir
\* takes what is in the channel; the consumer of exchange_deltas is the
\* caller's and promises nothing.
SpecWalkFair ==
    /\ SpecWalk
    /\ \A i \in {1} :
          /\ WF_vars( \/ Visit(i) \/ Load(i) \/ PutLoaded(i) \/ Match(i)
                      \/ Send(i) \/ Enter(i) \/ Finish(i) )
          /\ WF_vars(Drain(i) /\ tasks[i].kind = "walk_dir")

\* Two walks over the same layer on a tree nobody changes, each with its
\* consumer: a read_dir_recurse, and an exchange_deltas on the small channel
\* called after the walker of the first was spawned.
NextTwo ==
    \E i \in WalkerIds :
       \/ /\ IF i = 1 THEN TRUE ELSE tasks[1].state # "idle"
          /\ StartWalk(i)
          /\ tasks'[i].kind = IF i = 1 THEN "walk_dir" ELSE "exchange_deltas"
          /\ i = 2 => tasks'[i].cap = MaxChan
       \/ Visit(i) \/ Load(i) \/ PutLoaded(i) \/ Match(i)
       \/ Send(i) \/ Enter(i) \/ Drain(i) \/ Finish(i)

SpecTwo == InitWalk /\ [][NextTwo]_vars

(***************************************************************************)
(* Properties of the cache after write and delete_file                     *)
(***************************************************************************)
\* C1: on a facade built with with_cache, after write(p, data, overwrite, s)
\* returned Ok, a cache get(p) made next returns exactly s, the record the
\* caller passed, whatever the file on disk looks like.
WriteCachesCallerStats ==
    (last.op = "write" /\ last.ret = "Ok" /\ cache.kind = "lru")
        => CacheGet(cache, last.path).value = Some(last.stats)

\* A write that returned Ok on a path the cache already held, with a record
\* that does not describe the file written.
WriteReplacedCachedRecord ==
    /\ last.op = "write" /\ last.ret = "Ok" /\ cache.kind = "lru"
    /\ last.pre_cached
    /\ last.stats # from_path(disk, as_abs_path(last.path)).stats

\* C2: after delete_file(p) returned Ok the cache holds no entry for p: a
\* cache get(p) returns none, and the length of the cache dropped by one if p
\* was cached (and stayed as it was if not).
DeleteDropsCacheEntry ==
    (last.op = "delete_file" /\ last.ret = "Ok")
        => /\ CacheGet(cache, last.path).value = <<>>
           /\ CacheLen(cache) =
                 last.pre_len - (IF last.pre_cached THEN 1 ELSE 0)

\* A delete_file that returned Ok on a path the cache held.
DeletedCachedFile ==
    /\ last.op = "delete_file" /\ last.ret = "Ok"
    /\ last.pre_cached
    /\ last.pre_len >= 1

(***************************************************************************)
(* Properties of what the walking calls emit                               *)
(***************************************************************************)
WalkOps == {"read_dir", "read_dir_recurse", "exchange_deltas"}

\* C3: once deny_path(R) was called, no read_dir, read_dir_recurse or
\* exchange_deltas call, whatever its path or base_dir, emits an entry whose
\* location under the facade's base directory has R as a component-wise
\* prefix.
NothingEmittedUnderDeniedRoot ==
    last.op \in WalkOps
        => \A i \in 1..Len(filter_set.denied_roots), j \in 1..Len(last.locs) :
              ~ StartsWith(last.locs[j], filter_set.denied_roots[i])

\* C4 as stated: exchange_deltas(base_dir, D), with D everything the previous
\* exchange_deltas on the same base_dir emitted and neither the disk nor the
\* filter set changed since, sends no item and no chunk.
ResendOfAnyEmissionIsEmpty ==
    (last.op = "exchange_deltas" /\ last.after_any)
        => last.items = <<>> /\ last.sent = <<>>

\* C4 as amended: exchange_deltas(base_dir, D), with D everything emitted by
\* the previous exchange_deltas on the same base_dir that was itself called
\* with empty deltas and walked the tree to its end without an error, and
\* neither the disk nor the filter set nor the cached records changed since,
\* sends no item and no chunk.
ResendOfFullEmissionIsEmpty ==
    (last.op = "exchange_deltas" /\ last.after_full)
        => last.items = <<>> /\ last.sent = <<>>

\* An exchange_deltas given back the non-empty full listing of the call
\* before it.
ResentFullListing ==
    /\ last.op = "exchange_deltas" /\ last.after_full
    /\ Len(last.deltas) >= 2
    /\ last.listed # {}

\* C5: of the chunks one walker sends, every chunk but the last has exactly
\* chunk_size items, and the last is not empty and has at most chunk_size
\* items, also when the tree has nested subdirectories.
OnlyLastChunkIsShort ==
    last.op \in WalkOps
        => \A i \in 1..Len(last.sent) :
              /\ Len(last.sent[i]) >= 1
              /\ Len(last.sent[i]) <= last.chunk_size
              /\ i < Len(last.sent) => Len(last.sent[i]) = last.chunk_size

(***************************************************************************)
(* Properties of read_dir                                                  *)
(***************************************************************************)
\* The is_directory flag of the record the facade has of p: the cached
\* record where the cache holds one, the metadata on disk otherwise.
KnownAsDir(p) ==
    IF cache.kind = "lru" /\ CachePeek(cache, p) # <<>>
    THEN CachePeek(cache, p)[1].is_directory
    ELSE IsDir(disk, p)

\* The names of the direct children of dir whose filter decision is Allow.
AllowedChildren(dir) ==
    {n \in Names :
        /\ Exists(disk, dir \o <<n>>)
        /\ matches(filter_set, dir \o <<n>>, KnownAsDir(dir \o <<n>>)) = Allow}

\* C6: read_dir(path) returns exactly one item for every direct child of the
\* directory whose filter decision is Allow, nothing from deeper levels,
\* lists no directory but the one asked for, and returns the path argument
\* as current_path.
ReadDirListsAllowedChildren ==
    (last.op = "read_dir" /\ last.ret = "Ok")
        => /\ {last.items[i].name : i \in 1..Len(last.items)}
                 = AllowedChildren(as_abs_path(last.path))
           /\ Len(last.items) = Cardinality(AllowedChildren(as_abs_path(last.path)))
           /\ Len(last.locs) = Len(last.items)
           /\ \A j \in 1..Len(last.locs) :
                 Parent(last.locs[j]) = as_abs_path(last.path)
           /\ last.listed = {as_abs_path(last.path)}
           /\ last.current_path = last.path

\* A read_dir of dir1, which has a subdirectory with a file in it, where the
\* filter set let some children through and held others back.
ReadDirOfFilteredNestedDir ==
    /\ last.op = "read_dir" /\ last.ret = "Ok"
    /\ last.path = <<"dir1">>
    /\ last.items # <<>>
    /\ Len(last.items) < Cardinality({n \in Names : Exists(disk, <<"dir1", n>>)})

\* C7: in the Directory read_dir returns every directory item comes before
\* every file item, and within the directories and within the files the
\* names ascend.
ReadDirSortsDirsFirst ==
    (last.op = "read_dir" /\ last.ret = "Ok")
        => \A i, j \in 1..Len(last.items) :
              i < j =>
                /\ last.items[j].stats.is_directory
                      => last.items[i].stats.is_directory
                /\ (last.items[i].stats.is_directory
                        = last.items[j].stats.is_directory)
                      => NameRank(last.items[i].name) < NameRank(last.items[j].name)

\* A read_dir that returned two directories and a file.
ReadDirOfDirsAndFile ==
    /\ last.op = "read_dir" /\ last.ret = "Ok"
    /\ Len(last.items) = 3
    /\ last.items[1].stats.is_directory
    /\ last.items[2].stats.is_directory
    /\ ~ last.items[3].stats.is_directory

(***************************************************************************)
(* Properties of FilterSet                                                 *)
(***************************************************************************)
\* root is a prefix of path by whole components.
IsPrefix(root, path) == \E n \in 0..Len(path) : SubSeq(path, 1, n) = root

AnyPrefix(roots, path) == \E i \in 1..Len(roots) : IsPrefix(roots[i], path)

\* The ordered rules: the first rule whose condition holds decides.
Rules(fs, path, is_dir) ==
    <<[when |-> AnyPrefix(fs.denied_roots, path), then |-> Deny],
      [when |-> fs.allowed_roots # <<>> /\ ~ AnyPrefix(fs.allowed_roots, path),
       then |-> Deny],
      [when |-> is_dir /\ fs.allowed_extensions = {} /\ fs.allowed_filenames = {},
       then |-> Allow],
      [when |-> is_dir, then |-> Traverse],
      [when |-> /\ fs.allowed_extensions # {}
                /\ \/ Extension(path) = None
                   \/ ToLowercase(Extension(path)) \notin fs.allowed_extensions,
       then |-> Deny],
      [when |-> /\ fs.allowed_filenames # {}
                /\ path[Len(path)] \notin fs.allowed_filenames,
       then |-> Deny],
      [when |-> TRUE, then |-> Allow]>>

FirstMatchWins(fs, path, is_dir) ==
    LET rules == Rules(fs, path, is_dir)
        first == CHOOSE i \in 1..Len(rules) :
                    rules[i].when /\ \A j \in 1..(i - 1) : ~ rules[j].when
    IN rules[first].then

\* C8: matches(path, is_dir) returns what the ordered first-match-wins rules
\* give, for every path, flag and filter set; prefixes are taken by whole
\* components, and a denied root wins over any allowed root.
MatchesIsFirstMatchWins ==
    m_res # None
        => /\ m_res = FirstMatchWins(filter_set, m_path, m_dir)
           /\ AnyPrefix(filter_set.denied_roots, m_path) => m_res = Deny

\* matches called on a path under an allowed root and under a denied root
\* below it, with another root in the filter set that occurs in the path but
\* not at its start.
MatchedUnderAllowedAndDenied ==
    /\ m_res = Deny
    /\ m_path = <<"dir1", "dir2", "a.txt">>
    /\ filter_set.allowed_roots = <<<<"dir2">>, <<"dir1">>>>
    /\ \E i \in 1..Len(filter_set.denied_roots) :
          filter_set.denied_roots[i] = <<"dir1", "dir2">>

\* C9: for every path and directory flag, a decision that was Deny before a
\* deny_path call is Deny after it, and no decision is Allow after the call
\* that was not Allow before it.
DenyPathNeverAllows ==
    last.op = "deny_path"
        => \A p \in ProbePaths, d \in BOOLEAN :
              /\ matches(last.pre_filter, p, d) = Deny
                    => matches(filter_set, p, d) = Deny
              /\ matches(filter_set, p, d) = Allow
                    => matches(last.pre_filter, p, d) = Allow

\* A deny_path call that changed a decision, on a filter set that already
\* denied some path for lying outside the allowed roots.
DenyPathChangedDecision ==
    /\ last.op = "deny_path"
    /\ last.pre_filter.allowed_roots # <<>>
    /\ \E p \in ProbePaths : matches(last.pre_filter, p, FALSE) = Deny
    /\ \E p \in ProbePaths :
          /\ matches(last.pre_filter, p, FALSE) = Allow
          /\ matches(filter_set, p, FALSE) = Deny

\* C10 as stated: allow_path called on a filter set whose allow collections
\* are all empty never turns the decision for a path from Allow into Deny.
AllowPathOnEmptyKeepsAllow ==
    (/\ last.op = "allow_path"
     /\ last.pre_filter.allowed_roots = <<>>
     /\ last.pre_filter.allowed_extensions = {}
     /\ last.pre_filter.allowed_filenames = {})
        => \A p \in ProbePaths, d \in BOOLEAN :
              ~ (/\ matches(last.pre_filter, p, d) = Allow
                 /\ matches(filter_set, p, d) = Deny)

\* C10 as amended: allow_path(R) never turns the decision for a path from
\* Allow into Deny when the list of allowed roots was not empty before the
\* call, nor for a path that has R as a component-wise prefix; called on an
\* empty list of allowed roots it turns every Allow of a path outside R into
\* Deny.
AllowPathKeepsAllowUnlessFirstRoot ==
    last.op = "allow_path"
        => \A p \in ProbePaths, d \in BOOLEAN :
              /\ (/\ matches(last.pre_filter, p, d) = Allow
                  /\ matches(filter_set, p, d) = Deny)
                    => /\ last.pre_filter.allowed_roots = <<>>
                       /\ ~ IsPrefix(last.path, p)
              /\ (/\ last.pre_filter.allowed_roots = <<>>
                  /\ matches(last.pre_filter, p, d) = Allow
                  /\ ~ IsPrefix(last.path, p))
                    => matches(filter_set, p, d) = Deny

\* An allow_path call on a filter set that already had an allowed root: a
\* path allowed before is still allowed, and a path denied before is allowed
\* now.
AllowPathAddedSecondRoot ==
    /\ last.op = "allow_path"
    /\ last.pre_filter.allowed_roots # <<>>
    /\ \E p \in ProbePaths :
          /\ matches(last.pre_filter, p, FALSE) = Allow
          /\ matches(filter_set, p, FALSE) = Allow
    /\ \E p \in ProbePaths :
          /\ matches(last.pre_filter, p, FALSE) = Deny
          /\ matches(filter_set, p, FALSE) = Allow

\* The entries below dir that a recursive walk reaches: every directory on
\* the way from dir down to the entry has a decision other than Deny.
Reached(dir) ==
    {p \in DiskPaths :
        /\ Exists(disk, p)
        /\ Len(p) > Len(dir) /\ StartsWith(p, dir)
        /\ \A n \in (Len(dir) + 1)..(Len(p) - 1) :
              FirstMatchWins(filter_set, SubSeq(p, 1, n), TRUE) # Deny}

\* C11: with a non-empty set of allowed extensions or of allowed file names
\* a recursive walk emits no directory, but goes down into every directory
\* that is not denied: it emits exactly the files, at any depth, whose
\* extension and file name pass the filter.
FilteredWalkEmitsMatchingFiles ==
    (/\ last.op = "read_dir_recurse" /\ last.ret = "Ok"
     /\ \/ filter_set.allowed_extensions # {}
        \/ filter_set.allowed_filenames # {})
        => /\ \A i \in 1..Len(last.items) : ~ last.items[i].stats.is_directory
           /\ \A j \in 1..Len(last.locs) : ~ IsDir(disk, last.locs[j])
           /\ Len(last.locs) = Cardinality({last.locs[j] : j \in 1..Len(last.locs)})
           /\ {last.locs[j] : j \in 1..Len(last.locs)}
                 = {p \in Reached(as_abs_path(last.path)) :
                       /\ ~ IsDir(disk, p)
                       /\ FirstMatchWins(filter_set, p, FALSE) = Allow}

\* A recursive walk of the whole tree under a file name filter that emitted
\* a file of the top directory and a file two directories down.
FilteredWalkFoundNestedFile ==
    /\ last.op = "read_dir_recurse" /\ last.ret = "Ok"
    /\ last.path = <<>>
    /\ filter_set.allowed_filenames # {}
    /\ \E j \in 1..Len(last.locs) : Len(last.locs[j]) = 1
    /\ \E j \in 1..Len(last.locs) : Len(last.locs[j]) = 3

(***************************************************************************)
(* Properties of Path                                                      *)
(***************************************************************************)
\* A string no component of a Path may be.
Forbidden(str) ==
    \/ str = <<>> \/ str = <<".">> \/ str = <<".", ".">>
    \/ \E i \in 1..Len(str) : str[i] = "/" \/ str[i] = "\\"

AnyForbidden(strs) == \E i \in 1..Len(strs) : Forbidden(strs[i])

\* C12: construction from components fails with InvalidArgument when a
\* component is empty, ".", ".." or holds a forward slash or a backslash;
\* otherwise it gives a Path whose components are the input, in order.
FromComponentsValidates ==
    p_probe.op = "from_components"
        => IF AnyForbidden(p_probe.input)
           THEN ~ p_probe.ok /\ p_probe.err = "InvalidArgument"
           ELSE p_probe.ok /\ p_probe.path = p_probe.input

\* A sequence whose only forbidden mark is a backslash was turned down.
FromComponentsRefusedBackslash ==
    /\ p_probe.op = "from_components" /\ ~ p_probe.ok
    /\ Len(p_probe.input) = 2
    /\ \A i \in 1..2 : p_probe.input[i] \in {<<"a">>, <<"a", "\\">>}

\* C13: whatever fallible constructor a Path comes from (components, a host
\* path, deserialization), none of its components is empty, ".", ".." or
\* holds a forward slash or a backslash; so append_to(base) gives a host
\* path with no "." or ".." component beyond those of base.
EveryPathIsClean ==
    /\ (p_probe.ok /\ p_probe.op = p_probe.ctor)
           => ~ AnyForbidden(p_probe.path)
    /\ p_probe.op = "append_to"
           => \A i \in 1..Len(StdComponents(p_probe.out)) :
                  StdComponents(p_probe.out)[i] \notin {<<".">>, <<".", ".">>}

\* C14: deserialization turns a components array down exactly when
\* construction from components turns the same sequence down, and a Path
\* built from components is unchanged by serialize-then-deserialize.
DeserializeValidatesAsFromComponents ==
    /\ p_probe.op = "deserialize"
           => /\ p_probe.ok <=> PathTryFrom(p_probe.input).ok
              /\ p_probe.ok <=> ~ AnyForbidden(p_probe.input)
    /\ (p_probe.op = "round_trip" /\ p_probe.ctor = "from_components")
           => p_probe.ok /\ p_probe.path = p_probe.orig

\* C15: Path::lookup(base_dir) of a path returns the metadata of the file at
\* base_dir joined with the path, and InvalidPath when nothing is there.
LookupReadsTheJoinedPath ==
    last.op = "lookup"
        => IF Exists(disk, append_to(last.path, last.base_dir))
           THEN /\ last.ret = "Ok"
                /\ last.stats
                     = from_path(disk, append_to(last.path, last.base_dir)).stats
           ELSE last.ret = "InvalidPath"

(***************************************************************************)
(* Properties of calls that fail                                           *)
(***************************************************************************)
\* C16: write without overwrite on a path that exists returns FileExists
\* and changes nothing: the tree with its bytes and modification times, the
\* cache with its records and its hit and miss counters stay as they were.
WriteOnExistingChangesNothing ==
    [][/\ \A path \in WritePaths, data \in WriteData, io_ok \in BOOLEAN :
            \A stats \in CallerStats(data) :
                (/\ Exists(disk, as_abs_path(path))
                 /\ Step /\ write(path, data, FALSE, stats, io_ok))
                    => last'.ret = "FileExists"
       /\ (last'.op = "write" /\ last'.ret = "FileExists" /\ nops' = nops + 1)
              => disk' = disk /\ cache' = cache]_vars

\* A write was refused with FileExists while the cache held a record of the
\* path.
WriteRefusedOnCachedFile ==
    /\ last.op = "write" /\ last.ret = "FileExists"
    /\ last.pre_cached
    /\ CachePeek(cache, last.path) # <<>>

\* C17: when write fails, at the update of the modification time or before
\* it, the cache entry of the path is what it was before the call: not
\* removed, not replaced, not created.
FailedWriteKeepsCacheEntry ==
    [][(last'.op = "write" /\ last'.ret # "Ok" /\ nops' = nops + 1)
          => CachePeek(cache', last'.path) = CachePeek(cache, last'.path)]_vars

\* A write over a file whose record was cached failed after the bytes were
\* written.
WriteFailedAtMtimeOnCachedFile ==
    /\ last.op = "write" /\ last.ret \in {"Parse", "Write"}
    /\ last.pre_cached
    /\ ~ IsDir(disk, as_abs_path(last.path))

\* C18: delete_file returns InvalidArgument when the path does not exist or
\* is a directory, and when it returns any error the cache (records and
\* counters) is unchanged and nothing is removed from disk.
FailedDeleteChangesNothing ==
    [][/\ \A path \in WritePaths, io_ok \in BOOLEAN :
            (/\ \/ ~ Exists(disk, as_abs_path(path))
                \/ IsDir(disk, as_abs_path(path))
             /\ Step /\ delete_file(path, io_ok))
                => last'.ret = "InvalidArgument"
       /\ (last'.op = "delete_file" /\ last'.ret # "Ok" /\ nops' = nops + 1)
              => disk' = disk /\ cache' = cache]_vars

\* The removal of a file whose record was cached failed.
DeleteFailedOnCachedFile ==
    /\ last.op = "delete_file" /\ last.ret = "Delete"
    /\ last.pre_cached

(***************************************************************************)
(* Properties of FsCache                                                   *)
(***************************************************************************)
\* C19: after any get, put or pop the LRU cache holds no more entries than
\* the capacity it was constructed with.
CacheLenWithinCapacity == CacheLen(cache) <= cache.cap

\* A new key was put into a cache that was full.
PutIntoFullCache ==
    /\ last.op = "put" /\ ~ last.pre_cached
    /\ last.pre_len = cache.cap
    /\ CacheLen(cache) = cache.cap
    /\ cache.cap > 1

\* The stored key whose latest put or successful get is the oldest.
LeastRecentlyTouched(c) ==
    CHOOSE k \in CacheKeys(c) : \A j \in CacheKeys(c) : touched[k] <= touched[j]

\* The records stored under the keys of ks are the same in c and d.
SameRecords(c, d, ks) == \A k \in ks : CachePeek(c, k) = CachePeek(d, k)

\* C20: a put of a new key into a full cache evicts exactly the entry whose
\* latest put or successful get is the oldest; a put on a stored key
\* replaces its record and evicts nothing; pop removes only the named key.
PutEvictsLeastRecentlyTouched ==
    [][/\ last'.op = "put"
            => /\ CachePeek(cache', last'.path) = last'.items
               /\ CacheKeys(cache')
                    = (CacheKeys(cache) \cup {last'.path})
                      \ (IF /\ last'.path \notin CacheKeys(cache)
                            /\ CacheLen(cache) = cache.cap
                         THEN {LeastRecentlyTouched(cache)} ELSE {})
               /\ SameRecords(cache, cache', CacheKeys(cache') \ {last'.path})
       /\ last'.op = "pop"
            => /\ CacheKeys(cache') = CacheKeys(cache) \ {last'.path}
               /\ SameRecords(cache, cache', CacheKeys(cache'))
       /\ last'.op = "get"
            => /\ CacheKeys(cache') = CacheKeys(cache)
               /\ SameRecords(cache, cache', CacheKeys(cache))]_vars

\* A new key was put into a full cache after a successful get.
PutIntoFullCacheAfterHit ==
    /\ last.op = "put" /\ ~ last.pre_cached
    /\ last.pre_len = cache.cap
    /\ cache.hits > 0
    /\ cache.cap > 1

\* C21: the counters change only on get: a get of a stored key adds one to
\* hits and leaves misses, a get of an absent key adds one to misses and
\* leaves hits; put and pop leave both as they are.
CountersChangeOnlyOnGet ==
    [][/\ last'.op = "get"
            => IF last'.path \in CacheKeys(cache)
               THEN cache'.hits = cache.hits + 1 /\ cache'.misses = cache.misses
               ELSE cache'.hits = cache.hits /\ cache'.misses = cache.misses + 1
       /\ last'.op \in {"put", "pop"}
            => cache'.hits = cache.hits /\ cache'.misses = cache.misses]_vars

\* A get of an absent key after a hit and a put.
MissedAfterHit ==
    /\ last.op = "get" /\ ~ last.pre_cached
    /\ cache.hits > 0 /\ cache.misses > 0
    /\ CacheLen(cache) > 0

\* C22: on a facade built by without_cache, after any calls, get and pop
\* return none for every key, the length is 0, both counters are 0, and every
\* record a walk emits is the one read from disk for the entry.
NullCacheHoldsNothing ==
    cache.kind = "null"
        => /\ cache = without_cache
           /\ CacheLen(cache) = 0 /\ cache.hits = 0 /\ cache.misses = 0
           /\ \A key \in DiskPaths :
                 /\ CacheGet(cache, key).value = <<>>
                 /\ CacheGet(cache, key).cache = cache
                 /\ CachePeek(cache, key) = <<>>
                 /\ CachePop(cache, key) = cache
           /\ (last.op \in WalkOps /\ last.walk_err = None)
                 => \A i \in 1..Len(last.locs) :
                        Concat(last.sent)[i].stats
                            = from_path(disk, last.locs[i]).stats

\* Without a cache, a recursive walk emitted the record of a file that a
\* write had changed.
NullCacheWalkAfterWrite ==
    /\ cache.kind = "null"
    /\ last.op = "read_dir_recurse" /\ last.ret = "Ok"
    /\ \E i \in 1..Len(last.locs) :
           /\ ~ IsDir(disk, last.locs[i])
           /\ disk[last.locs[i]] # Fixture[<<"a.txt">>]
           /\ last.locs[i] = <<"a.txt">>

(***************************************************************************)
(* Properties of one walk                                                  *)
(***************************************************************************)
\* The prefix a walking call strips from the entries before they are matched
\* and used as cache keys.
StripOf(call) ==
    IF call.op = "exchange_deltas" /\ call.path # <<>>
    THEN Parent(call.path) ELSE <<>>

\* The paths below a directory of the walked tree whose decision, taken by
\* the ordered rules on its stripped path, is Deny.
BelowDenied(call, fs) ==
    {p \in DiskPaths :
        \E n \in (Len(call.path) + 1)..(Len(p) - 1) :
            /\ StartsWith(p, call.path)
            /\ IsDir(disk, SubSeq(p, 1, n))
            /\ FirstMatchWins(fs, StripPrefix(SubSeq(p, 1, n), StripOf(call)).rel,
                              TRUE) = Deny}

\* C27: a directory whose decision is Deny is neither emitted nor entered:
\* the walk does not list it, and nothing below it is emitted, listed, or
\* gets its cache entry created or changed.
DeniedDirectoryIsNotEntered ==
    [][last'.op \in WalkOps
          => /\ \A i \in 1..Len(last'.locs) :
                   /\ IsDir(disk, last'.locs[i])
                        => FirstMatchWins(filter_set,
                               StripPrefix(last'.locs[i], StripOf(last')).rel,
                               TRUE) # Deny
                   /\ last'.locs[i] \notin BelowDenied(last', filter_set)
             /\ \A p \in BelowDenied(last', filter_set) :
                   /\ Parent(p) \notin last'.listed
                   /\ CachePeek(cache', StripPrefix(p, StripOf(last')).rel)
                        = CachePeek(cache, StripPrefix(p, StripOf(last')).rel)]_vars

\* A recursive walk of the whole tree with dir1/dir2 denied emitted dir1 and
\* the file next to dir1/dir2.
WalkedAroundDeniedDirectory ==
    /\ last.op = "read_dir_recurse" /\ last.ret = "Ok" /\ last.path = <<>>
    /\ filter_set.denied_roots = <<<<"dir1", "dir2">>>>
    /\ {last.locs[i] : i \in 1..Len(last.locs)}
         = {<<"a.txt">>, <<"dir1">>, <<"dir1", "b.RS">>}
    /\ CachePeek(cache, <<"dir1", "dir2">>) # <<>>

\* C28: with a chunk size of at least 1 every chunk sent holds at least one
\* item and at most chunk_size items, and when the walk returns Ok the chunks
\* in the order sent, put end to end, are the entries the walker pushed, in
\* the order it pushed them: none lost, repeated, moved or left unsent.
ChunksCarryEveryPushedItem ==
    (last.op \in WalkOps /\ last.chunk_size >= 1)
        => /\ \A k \in 1..Len(last.sent) :
                 Len(last.sent[k]) >= 1 /\ Len(last.sent[k]) <= last.chunk_size
           /\ last.walk_err = None
                 => /\ Len(Concat(last.sent)) = Len(last.locs)
                    /\ \A i \in 1..Len(last.locs) :
                          /\ StripOf(last) \o Concat(last.sent)[i].path
                               = last.locs[i]
                          /\ \A j \in 1..Len(last.locs) :
                                last.locs[i] = last.locs[j] => i = j

\* A walk with chunk size 2 that sent full chunks and a trailing chunk of one
\* item.
SentFullAndPartialChunks ==
    /\ last.op = "exchange_deltas" /\ last.walk_err = None
    /\ last.chunk_size = 2
    /\ Len(last.sent) >= 3
    /\ Len(last.sent[1]) = 2
    /\ Len(last.sent[Len(last.sent)]) = 1

\* C29: one walker emits in depth-first pre-order: a directory comes before
\* everything emitted below it, what is emitted in one subtree is not
\* interrupted by an entry outside it, and the consumer gets the items in
\* the order of the chunks sent.
EmissionIsDepthFirstPreOrder ==
    last.op \in WalkOps
        => /\ \A i, j \in 1..Len(last.locs) :
                 (Len(last.locs[i]) < Len(last.locs[j])
                  /\ StartsWith(last.locs[j], last.locs[i])) => i < j
           /\ \A r \in DiskPaths : \A i, j, k \in 1..Len(last.locs) :
                 (i < j /\ j < k /\ StartsWith(last.locs[i], r)
                  /\ StartsWith(last.locs[k], r))
                     => StartsWith(last.locs[j], r)
           /\ (last.op # "read_dir" /\ last.walk_err = None)
                 => /\ Len(last.items) = Len(last.locs)
                    /\ \A i \in 1..Len(last.items) :
                          StripOf(last) \o last.items[i].path = last.locs[i]

\* A walk of the whole tree that met dir1 first: dir1, everything below it,
\* and then the file next to dir1.
WalkedSubtreeBeforeSibling ==
    /\ last.op = "read_dir_recurse" /\ last.ret = "Ok"
    /\ last.locs = <<<<"dir1">>, <<"dir1", "dir2">>, <<"dir1", "dir2", "a.txt">>,
                     <<"dir1", "b.RS">>, <<"a.txt">>>>

(***************************************************************************)
(* Properties of a walk in progress                                        *)
(***************************************************************************)
Started == {i \in WalkerIds : tasks[i].state # "idle"}

\* C23: once the receiver of a walker's channel has been dropped, the next
\* chunk send of the walker fails and the walk returns Error::Sync; after
\* that failure the walker lists no directory, loads no entry and sends
\* nothing.
CancelledWalkStops ==
    [][\A i \in Started :
          /\ ( /\ tasks[i].rx = "dropped" /\ tasks[i].pc = "send"
               /\ tasks'[i] # tasks[i] )
             => /\ tasks'[i].w.err = "Sync"
                /\ tasks'[i].pc = "done"
                /\ tasks'[i].w.sent = tasks[i].w.sent
          /\ tasks[i].w.err = "Sync"
             => /\ tasks'[i].w.err = "Sync"
                /\ tasks'[i].w.listed = tasks[i].w.listed
                /\ tasks'[i].looked = tasks[i].looked
                /\ tasks'[i].w.sent = tasks[i].w.sent
                /\ tasks'[i].chan = tasks[i].chan]_vars

\* A walk that had sent a chunk was cancelled and has returned Error::Sync
\* with entries of the tree still unvisited.
CancelledWalkReturnedSync ==
    \E i \in Started :
       /\ tasks[i].state = "returned" /\ tasks[i].w.err = "Sync"
       /\ tasks[i].w.sent # <<>>
       /\ tasks[i].rx = "dropped"
       /\ Cardinality(tasks[i].looked) < 3

\* C24: exchange_deltas returns normally also when the walk inside it has
\* failed, nothing is sent after its return, and the consumer receives the
\* chunks sent before the failure as they were sent and in the order they
\* were sent.
ExchangeDeltasIsFireAndForget ==
    \A i \in Started :
       tasks[i].kind = "exchange_deltas"
       => /\ tasks[i].state = "returned"
             => tasks[i].ret = "Ok" /\ tasks[i].pc = "done"
          /\ tasks[i].rx = "open"
             => tasks[i].got \o tasks[i].chan = tasks[i].w.sent
          /\ IsPrefix(tasks[i].got, tasks[i].w.sent)

\* exchange_deltas has returned after a failed load, and the consumer has
\* received the chunks sent before the failure.
ExchangeDeltasReturnedAfterFailedLoad ==
    \E i \in Started :
       /\ tasks[i].kind = "exchange_deltas" /\ tasks[i].state = "returned"
       /\ tasks[i].w.err = "Read"
       /\ tasks[i].w.sent # <<>>
       /\ tasks[i].got = tasks[i].w.sent

\* C25: a filter mutator changes the one filter set every walker reads: the
\* matches call of a walk, also of one in progress, gives what the rules say
\* on the filter set as it is at the time of the call; what a walk has sent
\* and what the consumer has received is never taken back; and the mutator
\* leaves the cache, contents and counters, and the walks as they are.
FilterChangeSeenByWalkInProgress ==
    [][/\ \A i \in Started :
             /\ tasks[i].pc = "match" /\ tasks'[i].pc # "match"
                => tasks'[i].cur.level =
                      FirstMatchWins(filter_set, tasks[i].cur.rel,
                                     tasks[i].cur.stats.is_directory)
             /\ IsPrefix(tasks[i].w.sent, tasks'[i].w.sent)
             /\ IsPrefix(tasks[i].got, tasks'[i].got)
       /\ filter_set' # filter_set => cache' = cache /\ tasks' = tasks]_vars

\* A walk that had sent a chunk before deny_path was called had its next
\* entry denied by the new rule.
WalkInProgressSawNewDeny ==
    \E i \in Started :
       /\ tasks[i].cur.level = Deny
       /\ tasks[i].w.sent # <<>>
       /\ tasks[i].w.filter_set.denied_roots = <<>>
       /\ filter_set.denied_roots # <<>>

IsWalkDir(i, state) ==
    IF tasks[i].state = state THEN tasks[i].kind = "walk_dir" ELSE FALSE

\* C30: walk_dir always returns: the channel never holds more chunks than
\* its capacity, which is at most 100, a walk that was started returns, the
\* channel is empty when it does, and it returns the items in the order they
\* were sent if the walker succeeded and the error of the walker if not.
WalkDirAlwaysReturns ==
    /\ [](\A i \in WalkerIds :
            /\ IsWalkDir(i, "running") \/ IsWalkDir(i, "returned")
               => /\ Len(tasks[i].chan) <= tasks[i].cap
                  /\ tasks[i].cap <= WalkDirChannel
            /\ IsWalkDir(i, "returned")
               => /\ tasks[i].chan = <<>>
                  /\ IF tasks[i].w.err = None
                     THEN /\ tasks[i].ret = "Ok"
                          /\ tasks[i].items = Concat(tasks[i].w.sent)
                     ELSE tasks[i].ret = tasks[i].w.err)
    /\ \A i \in WalkerIds : IsWalkDir(i, "running") ~> IsWalkDir(i, "returned")

\* walk_dir has returned the items of a walk that sent more chunks than the
\* channel holds.
WalkDirReturnedThroughFullChannel ==
    \E i \in WalkerIds :
       /\ IsWalkDir(i, "returned")
       /\ tasks[i].ret = "Ok"
       /\ Len(tasks[i].w.sent) > tasks[i].cap
       /\ tasks[i].items # <<>>

\* C31: the first error ends a walk: a load that fails makes the walk return
\* that error and puts nothing into the cache, whose earlier records stay;
\* a walk that has failed visits no further entry, lists no directory, sends
\* nothing and leaves the cache alone, and walk_dir returns the error.
FirstErrorEndsWalk ==
    [][\A i \in Started :
          /\ tasks[i].pc = "load" /\ tasks'[i].pc # "load"
                 /\ from_path(disk, tasks[i].cur.entry_path).ok = FALSE
             => /\ tasks'[i].w.err = "Read"
                /\ tasks'[i].pc = "done"
                /\ cache' = cache
          /\ tasks[i].w.err # None
             => /\ tasks'[i].w.err = tasks[i].w.err
                /\ tasks'[i].pc = "done"
                /\ tasks'[i].w.listed = tasks[i].w.listed
                /\ tasks'[i].looked = tasks[i].looked
                /\ tasks'[i].w.sent = tasks[i].w.sent
                /\ tasks'[i] # tasks[i] => cache' = cache
                /\ IsWalkDir(i, "returned") => tasks[i].ret = tasks[i].w.err]_vars

\* A walk has returned the error of a failed load with no record for the
\* failing path in the cache and the records of the entries visited before
\* still there.
WalkReturnedAfterFailedLoad ==
    \E i \in Started :
       /\ tasks[i].state = "returned" /\ tasks[i].w.err = "Read"
       /\ tasks[i].cur.path \notin CacheKeys(cache)
       /\ Cardinality(tasks[i].looked) >= 2
       /\ CacheLen(cache) = Cardinality(tasks[i].looked) - 1

(***************************************************************************)
(* Properties of the cache after walks                                     *)
(***************************************************************************)
\* The entries of the directories a call listed.
ListedEntries(call) ==
    {p \in DiskPaths : Exists(disk, p) /\ Parent(p) \in call.listed}

\* C32: a walk gets each entry it lists from the cache once and puts once
\* per miss: when read_dir or read_dir_recurse returns Ok on a facade with
\* an LRU cache and the default filter set, hits have grown by the number
\* of listed entries that were cached, misses by the number of those that
\* were not, and the cache holds one record for every listed entry.
WalkGetsOncePerEntry ==
    [][ ( /\ nops' = nops + 1
          /\ last'.op \in {"read_dir", "read_dir_recurse"}
          /\ last'.ret = "Ok"
          /\ cache.kind = "lru" /\ filter_set = FilterSetNew )
        => LET entries == ListedEntries(last')
               cached == entries \cap CacheKeys(cache)
           IN /\ cache'.hits = cache.hits + Cardinality(cached)
              /\ cache'.misses = cache.misses + Cardinality(entries \ cached)
              /\ \A p \in entries :
                    Cardinality({k \in 1..Len(cache'.lru) :
                                    cache'.lru[k].key = p}) = 1 ]_vars

\* A recursive walk of the whole tree after a walk of a part of it: some
\* entries were hits, the others misses, and every entry has its record.
FullWalkAfterPartWalk ==
    /\ last.op = "read_dir_recurse" /\ last.path = <<>> /\ last.ret = "Ok"
    /\ cache.kind = "lru" /\ filter_set = FilterSetNew
    /\ cache.hits > 0
    /\ cache.misses = Cardinality(ListedEntries(last))
    /\ CacheLen(cache) = Cardinality(ListedEntries(last))
    /\ Cardinality(ListedEntries(last)) = 5

\* What the walker of a task sends when it walks alone, without a cache.
SentAlone(t) ==
    walk_dir_stream(DirWalkerCreate(t.w.strip_prefix, without_cache, filter_set,
                                    disk, t.w.ord, t.w.chunk_size,
                                    t.w.max_depth, t.w.lookup),
                    as_abs_path(<<>>)).sent

\* C33: two walkers running at the same time over one layer on an unchanged
\* tree: no walker fails or pushes an entry twice, a walker that has come to
\* its end has sent what it sends when it walks alone, and the cache holds
\* at most one record per path, the one a load of the path gives, also when
\* both walkers missed and loaded the path.
ConcurrentWalksAreIndependent ==
    /\ \A i \in Started :
          /\ tasks[i].w.err = None
          /\ \A j, k \in 1..Len(tasks[i].w.locs) :
                tasks[i].w.locs[j] = tasks[i].w.locs[k] => j = k
          /\ tasks[i].pc = "done" => tasks[i].w.sent = SentAlone(tasks[i])
    /\ \A j, k \in 1..Len(cache.lru) : cache.lru[j].key = cache.lru[k].key => j = k
    /\ \A k \in 1..Len(cache.lru) :
          cache.lru[k].value = from_path(disk, cache.lru[k].key).stats

\* Both walkers have come to their ends after both missed the same path and
\* put its record.
BothWalkersLoadedSamePath ==
    /\ \A i \in WalkerIds :
          IF tasks[i].state = "idle" THEN FALSE ELSE tasks[i].pc = "done"
    /\ cache.misses > CacheLen(cache)
    /\ CacheLen(cache) = 5

(***************************************************************************)
(* Properties of the cache when write and delete_file meet a walk          *)
(***************************************************************************)
\* C34: once delete_file(p) has returned Ok and p has not been created
\* again, the cache holds no record for p, whatever the walkers on the
\* layer do: a walker that loaded p before the deletion does not put its
\* record after the pop.
DeletedPathStaysOutOfCache ==
    ( /\ last.op = "delete_file" /\ last.ret = "Ok"
      /\ ~ Exists(disk, last.path) )
    => last.path \notin CacheKeys(cache)

\* C35: once write(p, data, true, s) has returned Ok and no later write or
\* delete_file touched p, a record the cache holds for p equals s, whatever
\* the walkers on the layer do: a walker that loaded p before the write does
\* not put the older record over s.
WrittenRecordStaysInCache ==
    ( /\ last.op = "write" /\ last.ret = "Ok"
      /\ last.path \in CacheKeys(cache) )
    => CachePeek(cache, last.path)[1] = last.stats

\* C36: every record a walk puts into the cache is stored under the path of
\* its file relative to the base directory of the facade, the key write and
\* delete_file use for that file: each item a walk has sent carries, as its
\* path and cache key, the place of its file below the base directory, and
\* an LRU cache holds a record under it.
CacheKeyIsPathBelowBase ==
    last.op \in WalkOps
    => \A j \in 1..Len(Concat(last.sent)) :
          /\ Concat(last.sent)[j].path = last.locs[j]
          /\ cache.kind = "lru" => last.locs[j] \in CacheKeys(cache)

(***************************************************************************)
(* Properties of walks under allowed roots                                 *)
(***************************************************************************)
\* C37: with allowed roots only (no denied root, no extension, no file
\* name) a recursive walk from the base directory emits every entry on disk
\* below or at an allowed root, whatever the number of components of the
\* root.
AllowedRootsAreWalkedWhole ==
    ( /\ last.op = "read_dir_recurse" /\ last.path = <<>> /\ last.ret = "Ok"
      /\ filter_set.allowed_roots # <<>> /\ filter_set.denied_roots = <<>>
      /\ filter_set.allowed_extensions = {}
      /\ filter_set.allowed_filenames = {} )
    => \A p \in DiskPaths :
          Exists(disk, p) /\ AnyPrefix(filter_set.allowed_roots, p)
          => \E j \in 1..Len(last.items) : last.items[j].path = p

(***************************************************************************)
(* Properties of the disk after write and delete_file                      *)
(***************************************************************************)
\* C38: a write that returns an error leaves the file at the path as it
\* was: there or not there as before the call, with the bytes it had.
FailedWriteKeepsFile ==
    [][(last'.op = "write" /\ last'.ret # "Ok" /\ nops' = nops + 1)
          => /\ NodeAt(disk', as_abs_path(last'.path)).kind
                  = NodeAt(disk, as_abs_path(last'.path)).kind
             /\ NodeAt(disk', as_abs_path(last'.path)).data
                  = NodeAt(disk, as_abs_path(last'.path)).data]_vars

\* Every record of the cache is what a load of its path from disk gives.
CacheMatchesDisk(c, dsk) ==
    \A k \in 1..Len(c.lru) :
       /\ from_path(dsk, as_abs_path(c.lru[k].key)).ok
       /\ from_path(dsk, as_abs_path(c.lru[k].key)).stats = c.lru[k].value

\* C39: when the cache was populated by a walk that has returned and matches
\* the disk, it matches the disk after a successful write with stats that
\* describe the written file and after a successful delete_file: every
\* record, those of the directories of the written or deleted files
\* included, is what a load from disk gives.
MutationKeepsCacheMatchingDisk ==
    [][( /\ nops' = nops + 1
         /\ last'.op \in {"write", "delete_file"} /\ last'.ret = "Ok"
         /\ \A i \in WalkerIds :
               IF tasks[i].state = "idle" THEN i # 1
               ELSE tasks[i].state = "returned" /\ tasks[i].w.err = None
         /\ CacheMatchesDisk(cache, disk) )
       => CacheMatchesDisk(cache', disk')]_vars

(***************************************************************************)
(* Properties of exchange_deltas and its channel                           *)
(***************************************************************************)
IsExchange(i, state) ==
    IF tasks[i].state = state THEN tasks[i].kind = "exchange_deltas" ELSE FALSE

\* The walker of task i waits for room in its channel.
WaitsForRoom(i) ==
    /\ tasks[i].pc = "send" /\ tasks[i].rx = "open"
    /\ Len(tasks[i].chan) = tasks[i].cap

\* C40 as stated: exchange_deltas returns for every tree and chunk size,
\* whether or not the caller takes anything out of the channel before.
ExchangeDeltasAlwaysReturns ==
    \A i \in WalkerIds : IsExchange(i, "running") ~> IsExchange(i, "returned")

\* C40, amended: exchange_deltas returns unless its walker comes to wait
\* for room in the channel; with a caller that has taken nothing out of the
\* channel the walker waits only when it has as many chunks in the channel
\* as the channel holds and one more to send; and when exchange_deltas has
\* returned, the receiver has or gets every chunk sent, in order.
ExchangeDeltasReturnsUnlessChannelFull ==
    /\ \A i \in WalkerIds :
          IsExchange(i, "running")
             ~> (IsExchange(i, "returned") \/ (IsExchange(i, "running") /\ WaitsForRoom(i)))
    /\ [](\A i \in WalkerIds :
            /\ IsExchange(i, "running") => 
                  ( WaitsForRoom(i) /\ tasks[i].got = <<>>
                    => /\ Len(tasks[i].w.sent) = tasks[i].cap
                       /\ tasks[i].w.chunks # <<>> )
            /\ IsExchange(i, "returned") =>
                  ( tasks[i].rx = "open"
                    => /\ tasks[i].got \o tasks[i].chan = tasks[i].w.sent
                       /\ tasks[i].w.chunks = <<>> \/ tasks[i].w.err # None ))

\* exchange_deltas has returned with several chunks in a channel of the
\* capacity the tests use, before the caller took any of them.
ExchangeDeltasReturnedUndrained ==
    \E i \in WalkerIds :
       /\ IsExchange(i, "returned")
       /\ tasks[i].cap = TestChannel
       /\ tasks[i].got = <<>>
       /\ tasks[i].rx = "open"
       /\ Len(tasks[i].chan) >= 2
       /\ tasks[i].w.err = None

=============================================================================
